---- MODULE Spec2Model ----
(***************************************************************************)
(* Model of the PDFRose processing layer: the sanitize, crop and           *)
(* text-to-pdf processors (src/src/lib/pdf/processors), the two-tier font  *)
(* cache they use, and the processor base helpers they inherit.            *)
(*                                                                         *)
(* A processor invocation is an async function: it runs synchronously from *)
(* one `await` to the next.  Each action below is one such synchronous     *)
(* segment; `pc` names the await the invocation is suspended at.  cancel() *)
(* and other jobs can only run while the invocation is suspended.          *)
(***************************************************************************)
EXTENDS Integers, Sequences, FiniteSets, TLC

(***************************************************************************)
(* Bounds                                                                  *)
(***************************************************************************)
MaxPages == 2
MaxFields == 1
MaxFaults == 1
MaxFiles == 2
MaxClock == 2

(***************************************************************************)
(* Generic helpers                                                         *)
(***************************************************************************)
RECURSIVE Factorial(_)
Factorial(n) == IF n <= 1 THEN 1 ELSE n * Factorial(n - 1)

\* Percentages are kept as exact fractions: a progress value p% is stored
\* as p * Scale, so that 30 + 60 * (i + 1) / total is exact for every total.
Scale == Factorial(MaxPages + 2)

Pct(p) == p * Scale

RECURSIVE SetToSortedSeq(_)
SetToSortedSeq(S) ==
  IF S = {} THEN <<>>
  ELSE LET m == CHOOSE x \in S : \A y \in S : x <= y
       IN <<m>> \o SetToSortedSeq(S \ {m})

Contains(seq, x) == \E i \in 1..Len(seq) : seq[i] = x

\* (mutant) the defaults are left out of the merge
SpreadWithoutDefaults(defaults, options) == options

\* JavaScript object spread  { ...defaults, ...options }
Spread(defaults, options) ==
  [k \in (DOMAIN defaults) \cup (DOMAIN options) |->
     IF k \in DOMAIN options THEN options[k] ELSE defaults[k]]

EmptyOptions == [k \in {} |-> TRUE]

(***************************************************************************)
(* Error codes (PDFErrorCode)                                              *)
(***************************************************************************)
INVALID_OPTIONS == "INVALID_OPTIONS"
PDF_ENCRYPTED == "PDF_ENCRYPTED"
PDF_MALFORMED == "PDF_MALFORMED"
PROCESSING_CANCELLED == "PROCESSING_CANCELLED"
PROCESSING_FAILED == "PROCESSING_FAILED"

ErrorCodes ==
  {INVALID_OPTIONS, PDF_ENCRYPTED, PDF_MALFORMED, PROCESSING_CANCELLED,
   PROCESSING_FAILED}

(***************************************************************************)
(* Strings are sequences of one-character strings, so that the filename    *)
(* computations can be carried out as the code does them.                  *)
(***************************************************************************)
DotPdf == <<".", "p", "d", "f">>
SanitizedSuffix == <<"_", "s", "a", "n", "i", "t", "i", "z", "e", "d">> \o DotPdf
CroppedSuffix == <<"_", "c", "r", "o", "p", "p", "e", "d">> \o DotPdf
CroppedFlattenedSuffix ==
  <<"_", "c", "r", "o", "p", "p", "e", "d", "_", "f", "l", "a", "t", "t", "e", "n", "e", "d">>
    \o DotPdf
FromTextName == <<"f", "r", "o", "m", "_", "t", "e", "x", "t">> \o DotPdf
TextFilesPrefix == <<"t", "e", "x", "t", "_">>
TextFilesSuffix == <<"_", "f", "i", "l", "e", "s">> \o DotPdf

\* String.prototype.lastIndexOf for a single character; positions are
\* 1-based and 0 stands for JavaScript's -1.
LastIndexOf(s, c) ==
  IF \E i \in 1..Len(s) : s[i] = c
  THEN CHOOSE i \in 1..Len(s) : s[i] = c /\ \A j \in (i + 1)..Len(s) : s[j] # c
  ELSE 0

\* String.prototype.indexOf for a substring (1-based, 0 = not found).
IndexOf(s, sub) ==
  LET hits == {i \in 1..(Len(s) - Len(sub) + 1) : SubSeq(s, i, i + Len(sub) - 1) = sub}
  IN IF hits = {} THEN 0 ELSE CHOOSE i \in hits : \A j \in hits : i <= j

\* String.prototype.replace(pattern, replacement) with a string pattern:
\* only the first occurrence is replaced.
ReplaceFirst(s, sub, by) ==
  LET i == IndexOf(s, sub)
  IN IF i = 0 THEN s
     ELSE SubSeq(s, 1, i - 1) \o by \o SubSeq(s, i + Len(sub), Len(s))

\* name.replace(/\.[^/.]+$/, ''): drop a final extension, that is a dot
\* followed by at least one character, none of them '/' or '.'.
StripExtension(s) ==
  LET d == LastIndexOf(s, ".")
  IN IF d # 0 /\ d < Len(s) /\ \A j \in (d + 1)..Len(s) : s[j] # "/"
     THEN SubSeq(s, 1, d - 1)
     ELSE s

IsSpace(c) == c \in {" ", "\t", "\n"}

\* String.prototype.trim
RECURSIVE TrimLeft(_)
TrimLeft(s) ==
  IF s # <<>> /\ IsSpace(Head(s)) THEN TrimLeft(Tail(s)) ELSE s

RECURSIVE TrimRight(_)
TrimRight(s) ==
  IF s # <<>> /\ IsSpace(s[Len(s)]) THEN TrimRight(SubSeq(s, 1, Len(s) - 1)) ELSE s

Trim(s) == TrimRight(TrimLeft(s))

RECURSIVE DigitsOf(_)
DigitsOf(n) ==
  IF n < 10 THEN <<ToString(n)>> ELSE DigitsOf(n \div 10) \o <<ToString(n % 10)>>

(***************************************************************************)
(* Input files                                                             *)
(***************************************************************************)
FilePool ==
  { [name |-> <<"a">> \o DotPdf, type |-> "application/pdf", size |-> 1],
    [name |-> <<"n">>, type |-> "text/plain", size |-> 2] }

FileLists == UNION { [1..n -> FilePool] : n \in 0..MaxFiles }

(***************************************************************************)
(* The document object of the PDF library, as far as the processors use    *)
(* it.  `faults` names the library calls that throw on this document.      *)
(***************************************************************************)
LibraryCalls ==
  {"getForm", "flatten", "acroForm", "getInfoDict", "getPages", "deleteAnnots",
   "jsCatalog", "attachCatalog", "lookupAnnots", "setCropBox"}

AnnotSubtypes == {"Link", "Text"}

NoDoc ==
  [pageCount |-> 0, fields |-> 0, acroForm |-> FALSE, metadata |-> FALSE,
   openAction |-> FALSE, embedded |-> FALSE, annots |-> {}, cropped |-> {},
   faults |-> {}]

Documents ==
  { [pageCount |-> n, fields |-> f, acroForm |-> (f > 0), metadata |-> m,
     openAction |-> js, embedded |-> em, annots |-> an, cropped |-> {},
     faults |-> fl] :
      n \in 0..MaxPages, f \in 0..MaxFields, m \in BOOLEAN, js \in BOOLEAN,
      em \in BOOLEAN, an \in SUBSET AnnotSubtypes,
      fl \in {F \in SUBSET LibraryCalls : Cardinality(F) <= MaxFaults} }

(***************************************************************************)
(* ProcessOutput                                                           *)
(***************************************************************************)
NoBlob == [type |-> "", size |-> 0, doc |-> NoDoc]
NoMetadata == [k \in {} |-> 0]
NoResult ==
  [settled |-> FALSE, success |-> FALSE, code |-> "", blob |-> NoBlob,
   filename |-> <<>>, metadata |-> NoMetadata]

(***************************************************************************)
(* BasePDFProcessor (lib/pdf/processor): progress, cancellation and result *)
(* construction helpers shared by every processor.                         *)
(***************************************************************************)
reset(self) == [self EXCEPT !.progress = 0, !.cancelled = FALSE]

updateProgress(self, percent) ==
  [self EXCEPT !.progress = percent,
               !.delivered = IF self.onProgress THEN Append(@, percent) ELSE @]

checkCancelled(self) == self.cancelled

createErrorOutput(self, code) ==
  [self EXCEPT !.pc = "done",
               !.result = [settled |-> TRUE, success |-> FALSE, code |-> code,
                           blob |-> NoBlob, filename |-> <<>>,
                           metadata |-> NoMetadata]]

createSuccessOutput(self, blob, filename, metadata) ==
  [self EXCEPT !.pc = "done",
               !.result = [settled |-> TRUE, success |-> TRUE, code |-> "",
                           blob |-> blob, filename |-> filename,
                           metadata |-> metadata]]

\* An exception that leaves process() outside its try block: the promise
\* returned by the async function is rejected.
rejectPromise(self) == [self EXCEPT !.pc = "rejected"]

\* A cancellation checkpoint that found the flag set (history only).
observeCancel(self) == [self EXCEPT !.sawCancel = TRUE]

(***************************************************************************)
(* One processor instance together with the invocation running on it.      *)
(* progress, cancelled and onProgress are the instance fields; the other   *)
(* fields are the locals of process() and history kept for the properties. *)
(***************************************************************************)
Kinds == {"sanitize", "crop", "text"}

IdleJob ==
  [kind |-> "none", pc |-> "idle", progress |-> 0, cancelled |-> FALSE,
   onProgress |-> FALSE, delivered |-> <<>>, files |-> <<>>,
   options |-> EmptyOptions, opts |-> EmptyOptions, originalSize |-> 0,
   pdfDoc |-> NoDoc, loaded |-> NoDoc, removedItems |-> <<>>, thrown |-> FALSE,
   result |-> NoResult, filesRead |-> 0, fontConfig |-> "", fontBytes |-> 0,
   \* history
   sawCancel |-> FALSE, cancelAt |-> "never", libLoads |-> 0, bytesRead |-> 0,
   docLoads |-> 0, saves |-> 0, storeOps |-> 0, undefinedReads |-> {},
   envFailed |-> FALSE, saveDone |-> FALSE, encryptOnOpen |-> FALSE,
   \* history: the pages given to setCropBox, in call order
   cropCalls |-> <<>>,
   \* history of the loadFont call of this invocation: what the two tiers
   \* held for the key when it started, the durable reads and fetches it
   \* issued, how its durable read and write ended, whether it returned
   memAtStart |-> 0, dbAtStart |-> 0, dbReads |-> 0, fetches |-> 0,
   dbGet |-> "none", dbPut |-> "none", fontLoaded |-> FALSE,
   \* how its fetch ended: "none", "ok", "status" (response.ok false), "threw"
   fetchEnd |-> "none",
   \* history: progress values of another invocation that were handed to the
   \* observer of this one
   foreign |-> <<>>]

\* What an awaited call produced: a value (ok) or a thrown value.  A thrown
\* value is an Error instance or not, and its message mentions encryption
\* (message.includes('encrypt')) or not.
Threw(isError, encrypt) ==
  [ok |-> FALSE, isError |-> isError, encrypt |-> encrypt, doc |-> NoDoc,
   size |-> 0, at |-> ""]
Gave(doc, size) ==
  [ok |-> TRUE, isError |-> FALSE, encrypt |-> FALSE, doc |-> doc,
   size |-> size, at |-> ""]
\* An IndexedDB operation fails either when the database is opened or when
\* the request on the object store errors.
DbFailed(at) ==
  [ok |-> FALSE, isError |-> TRUE, encrypt |-> FALSE, doc |-> NoDoc,
   size |-> 0, at |-> at]

\* how an IndexedDB operation ended: "ok", "open" or "request"
DbTag(e) == IF e.ok THEN "ok" ELSE e.at

Thrown == {Threw(TRUE, FALSE), Threw(TRUE, TRUE), Threw(FALSE, FALSE)}
PlainOutcomes == {Gave(NoDoc, 0), Threw(TRUE, FALSE)}
\* byte length of the serialized document (differs from every input size)
SaveSizes == {3}
SaveOutcomes == {Gave(NoDoc, n) : n \in SaveSizes} \cup {Threw(TRUE, FALSE)}

Fault(self, call) == call \in self.pdfDoc.faults

push(self, label) == [self EXCEPT !.removedItems = Append(@, label)]

\* Reading options.key: a key that is not in the object reads as undefined
\* (history: undefinedReads keeps the keys that were read that way).
read(self, key) ==
  IF key \in DOMAIN self.opts THEN self
  ELSE [self EXCEPT !.undefinedReads = @ \cup {key}]

\* if (options.key): undefined is falsy
enabled(self, key) == key \in DOMAIN self.opts /\ self.opts[key] = TRUE

(***************************************************************************)
(* SanitizePDFProcessor                                                    *)
(***************************************************************************)
DEFAULT_SANITIZE_OPTIONS ==
  [removeJavaScript |-> TRUE, removeAttachments |-> TRUE, removeLinks |-> TRUE,
   flattenForms |-> TRUE, removeMetadata |-> TRUE, removeAnnotations |-> FALSE]

SanitizeKeys == DOMAIN DEFAULT_SANITIZE_OPTIONS

generateSanitizedFilename(originalName) ==
  LET lastDot == LastIndexOf(originalName, ".")
      baseName == IF lastDot = 0 THEN originalName
                  ELSE SubSeq(originalName, 1, lastDot - 1)
  IN baseName \o SanitizedSuffix

\* sanitize.ts 150-170: flatten the form; if that throws, try to drop AcroForm
sanitizeFlattenForms(job0) ==
  LET self == read(job0, "flattenForms") IN
  IF ~enabled(self, "flattenForms") THEN self
  ELSE IF ~Fault(self, "getForm") /\ self.pdfDoc.fields = 0 THEN self
  ELSE IF ~Fault(self, "getForm") /\ ~Fault(self, "flatten")
    THEN push([self EXCEPT !.pdfDoc.fields = 0], "form fields (flattened)")
  ELSE IF Fault(self, "acroForm") THEN self
  ELSE IF self.pdfDoc.acroForm
    THEN push([self EXCEPT !.pdfDoc.acroForm = FALSE, !.pdfDoc.fields = 0], "form fields")
  ELSE self

\* sanitize.ts 175-205
sanitizeRemoveMetadata(job0) ==
  LET self == read(job0, "removeMetadata") IN
  IF ~enabled(self, "removeMetadata") THEN self
  ELSE IF Fault(self, "getInfoDict") THEN self
  ELSE push([self EXCEPT !.pdfDoc.metadata = FALSE], "metadata")

\* sanitize.ts 210-220: getPages() is outside the per-page try
sanitizeRemoveAnnotations(job0) ==
  LET self == read(job0, "removeAnnotations") IN
  IF ~enabled(self, "removeAnnotations") THEN self
  ELSE IF Fault(self, "getPages") THEN [self EXCEPT !.thrown = TRUE]
  ELSE IF Fault(self, "deleteAnnots") THEN push(self, "annotations")
  ELSE push([self EXCEPT !.pdfDoc.annots = {}], "annotations")

\* (mutant) the removal is not recorded
sanitizeRemoveJavaScriptUnrecorded(job0) ==
  LET self == read(job0, "removeJavaScript") IN
  IF ~enabled(self, "removeJavaScript") THEN self
  ELSE IF Fault(self, "jsCatalog") THEN self
  ELSE [self EXCEPT !.pdfDoc.openAction = FALSE]

\* sanitize.ts 225-269
sanitizeRemoveJavaScript(job0) ==
  LET self == read(job0, "removeJavaScript") IN
  IF ~enabled(self, "removeJavaScript") THEN self
  ELSE IF Fault(self, "jsCatalog") THEN self
  ELSE IF Fault(self, "getPages") THEN [self EXCEPT !.pdfDoc.openAction = FALSE]
  ELSE push([self EXCEPT !.pdfDoc.openAction = FALSE], "JavaScript")

\* sanitize.ts 274-300
sanitizeRemoveAttachments(job0) ==
  LET self == read(job0, "removeAttachments") IN
  IF ~enabled(self, "removeAttachments") THEN self
  ELSE IF Fault(self, "attachCatalog") THEN self
  ELSE push([self EXCEPT !.pdfDoc.embedded = FALSE], "embedded files")

\* sanitize.ts 303-346
sanitizeRemoveLinks(job0) ==
  LET self == read(job0, "removeLinks") IN
  IF ~enabled(self, "removeLinks") THEN self
  ELSE IF Fault(self, "getPages") THEN self
  ELSE IF Fault(self, "lookupAnnots") THEN push(self, "links")
  ELSE push([self EXCEPT !.pdfDoc.annots = @ \ {"Link"}], "links")

\* sanitize.ts 377-383
sanitizeCatch(self) ==
  createErrorOutput([self EXCEPT !.thrown = FALSE], PROCESSING_FAILED)

\* sanitize.ts 62-87: up to the first await
sanitizeProcess(self, files, options, onProgress) ==
  LET s0 == [reset(self) EXCEPT !.onProgress = onProgress,
                                !.files = files, !.options = options]
      s1 == [s0 EXCEPT !.opts = Spread(DEFAULT_SANITIZE_OPTIONS, options)]
  IN IF Len(files) # 1 THEN createErrorOutput(s1, INVALID_OPTIONS)
     ELSE [updateProgress(s1, Pct(5)) EXCEPT !.pc = "loadPdfLib", !.libLoads = @ + 1]

\* sanitize.ts 90-103: loadPdfLib() settled
sanitizeAfterLoadPdfLib(self, e) ==
  IF ~e.ok THEN sanitizeCatch(self)
  ELSE IF checkCancelled(self)
    THEN createErrorOutput(observeCancel(self), PROCESSING_CANCELLED)
  ELSE [updateProgress(self, Pct(10)) EXCEPT !.pc = "arrayBuffer", !.bytesRead = @ + 1]

\* sanitize.ts 103-113: file.arrayBuffer() settled
sanitizeAfterArrayBuffer(self, e) ==
  IF ~e.ok THEN sanitizeCatch(self)
  ELSE [updateProgress([self EXCEPT !.originalSize = self.files[1].size], Pct(20))
          EXCEPT !.pc = "load", !.docLoads = @ + 1]

\* sanitize.ts 147-358: the removal steps, run without suspension
sanitizeSteps(self) ==
  LET a == sanitizeFlattenForms(updateProgress(self, Pct(40)))
      b == sanitizeRemoveMetadata(updateProgress(a, Pct(50)))
      c == sanitizeRemoveAnnotations(updateProgress(b, Pct(60)))
      d == sanitizeRemoveJavaScript(updateProgress(c, Pct(70)))
      f == sanitizeRemoveLinks(sanitizeRemoveAttachments(updateProgress(d, Pct(80))))
  IN IF c.thrown THEN sanitizeCatch(c)
     ELSE IF checkCancelled(f)
       THEN createErrorOutput(observeCancel(f), PROCESSING_CANCELLED)
     ELSE [updateProgress(f, Pct(90)) EXCEPT !.pc = "save", !.saves = @ + 1]

\* sanitize.ts 111-147: PDFDocument.load() settled
sanitizeAfterLoad(self, e) ==
  IF ~e.ok THEN
    IF e.isError /\ e.encrypt THEN createErrorOutput(self, PDF_ENCRYPTED)
    ELSE sanitizeCatch(self)
  ELSE IF checkCancelled(self)
    THEN createErrorOutput(observeCancel(self), PROCESSING_CANCELLED)
  ELSE LET s == updateProgress([self EXCEPT !.pdfDoc = e.doc, !.loaded = e.doc], Pct(30))
       IN IF s.pdfDoc.pageCount = 0 THEN createErrorOutput(s, PDF_MALFORMED)
          ELSE sanitizeSteps(s)

\* sanitize.ts 358-375: pdfDoc.save() settled
sanitizeAfterSave(self, e) ==
  IF ~e.ok THEN sanitizeCatch(self)
  ELSE LET blob == [type |-> "application/pdf", size |-> e.size, doc |-> self.pdfDoc]
           s == updateProgress(self, Pct(100))
       IN createSuccessOutput(s, blob, generateSanitizedFilename(self.files[1].name),
            [pageCount |-> self.pdfDoc.pageCount, originalSize |-> self.originalSize,
             newSize |-> e.size, removedItems |-> self.removedItems,
             sanitized |-> TRUE])

(***************************************************************************)
(* CropProcessor                                                           *)
(***************************************************************************)
\* Keys of cropData: 1-based page numbers, some of them out of range.
PageKeys == 0..(MaxPages + 1)

\* Object.keys(cropData).map(Number): integer keys come in ascending order
pageNumbersOf(cropData) == SetToSortedSeq(cropData)

\* (mutant) the band is walked downwards
cropProgressDescending(i, totalToProcess) ==
  Pct(30) + (Pct(60) * (totalToProcess - i)) \div totalToProcess

\* crop.ts 110: 30 + (60 * (i + 1) / totalToProcess), i counted from 0
cropProgress(i, totalToProcess) ==
  Pct(30) + (Pct(60) * (i + 1)) \div totalToProcess

\* crop.ts 65-67
cropCatch(self) ==
  createErrorOutput([self EXCEPT !.thrown = FALSE], PROCESSING_FAILED)

\* crop.ts 77-111: the page loop of performMetadataCrop, from index i
RECURSIVE cropLoop(_, _, _)
cropLoop(self, pageNumbers, i) ==
  IF i >= Len(pageNumbers) THEN self
  ELSE IF checkCancelled(self) THEN [observeCancel(self) EXCEPT !.thrown = TRUE]
  ELSE LET pageNum == pageNumbers[i + 1]
           pageIndex == pageNum - 1
       IN IF pageIndex < 0 \/ pageIndex >= self.pdfDoc.pageCount
            THEN cropLoop(self, pageNumbers, i + 1)
          ELSE IF Fault(self, "setCropBox") THEN [self EXCEPT !.thrown = TRUE]
          ELSE cropLoop(
                 updateProgress([self EXCEPT !.pdfDoc.cropped = @ \cup {pageNum},
                                             !.cropCalls = Append(@, pageNum)],
                                cropProgress(i, Len(pageNumbers))),
                 pageNumbers, i + 1)

\* (mutant) progress is reported before the input is validated
cropProcessValidatingLate(self, files, options, onProgress) ==
  LET s0 == [reset(self) EXCEPT !.onProgress = onProgress,
                                !.files = files, !.options = options,
                                !.opts = options]
      s1 == updateProgress(read(s0, "cropData"), Pct(10))
  IN IF Len(files) # 1 THEN createErrorOutput(s1, INVALID_OPTIONS)
     ELSE IF "cropData" \notin DOMAIN s1.opts \/ s1.opts["cropData"] = {}
       THEN createErrorOutput(s1, INVALID_OPTIONS)
     ELSE [s1 EXCEPT !.pc = "loadPdfLib", !.libLoads = @ + 1]

\* crop.ts 24-41: up to the first await
cropProcess(self, files, options, onProgress) ==
  LET s0 == [reset(self) EXCEPT !.onProgress = onProgress,
                                !.files = files, !.options = options,
                                !.opts = options]
      s1 == read(s0, "cropData")
  IN IF Len(files) # 1 THEN createErrorOutput(s0, INVALID_OPTIONS)
     ELSE IF "cropData" \notin DOMAIN s1.opts \/ s1.opts["cropData"] = {}
       THEN createErrorOutput(s1, INVALID_OPTIONS)
     ELSE [updateProgress(s1, Pct(10)) EXCEPT !.pc = "loadPdfLib", !.libLoads = @ + 1]

\* crop.ts 41-45
cropAfterLoadPdfLib(self, e) ==
  IF ~e.ok THEN cropCatch(self)
  ELSE [updateProgress(self, Pct(20)) EXCEPT !.pc = "arrayBuffer", !.bytesRead = @ + 1]

isDestructive(self) ==
  "mode" \in DOMAIN self.opts /\ self.opts["mode"] = "destructive"

\* crop.ts 70-71: performMetadataCrop up to its await of PDFDocument.load()
performMetadataCrop(self) == [self EXCEPT !.pc = "load", !.docLoads = @ + 1]

\* (mutant) the pages are rasterized: the document is serialized without
\* any crop box being set
performDestructiveCropRasterizing(self) == [self EXCEPT !.pc = "save", !.saves = @ + 1]

\* crop.ts 116-139: return this.performMetadataCrop(pdfLib, arrayBuffer, cropData)
performDestructiveCrop(self) == performMetadataCrop(self)

\* crop.ts 45-55
cropAfterArrayBuffer(self, e) ==
  IF ~e.ok THEN cropCatch(self)
  ELSE LET s == read(self, "mode")
       IN IF isDestructive(s) THEN performDestructiveCrop(s)
          ELSE performMetadataCrop(s)

\* (mutant) the document is handed out without being serialized
cropAfterLoadWithoutSave(self, e) ==
  IF ~e.ok THEN cropCatch(self)
  ELSE LET s == cropLoop([self EXCEPT !.pdfDoc = e.doc, !.loaded = e.doc],
                         pageNumbersOf(self.opts["cropData"]), 0)
           blob == [type |-> "application/pdf", size |-> 0, doc |-> s.pdfDoc]
       IN IF s.thrown THEN cropCatch(s)
          ELSE createSuccessOutput(updateProgress(s, Pct(100)), blob,
                 ReplaceFirst(self.files[1].name, DotPdf, CroppedSuffix),
                 [pagesCropped |-> Cardinality(self.opts["cropData"])])

\* crop.ts 71-113: PDFDocument.load() settled
cropAfterLoad(self, e) ==
  IF ~e.ok THEN cropCatch(self)
  ELSE LET s == cropLoop([self EXCEPT !.pdfDoc = e.doc, !.loaded = e.doc],
                         pageNumbersOf(self.opts["cropData"]), 0)
       IN IF s.thrown THEN cropCatch(s)
          ELSE [s EXCEPT !.pc = "save", !.saves = @ + 1]

\* crop.ts 113, 57-63: pdf.save() settled
cropAfterSave(self, e) ==
  IF ~e.ok THEN cropCatch(self)
  ELSE LET s == updateProgress(self, Pct(100))
           suffix == IF isDestructive(self) THEN CroppedFlattenedSuffix ELSE CroppedSuffix
           blob == [type |-> "application/pdf", size |-> e.size, doc |-> self.pdfDoc]
       IN createSuccessOutput(s, blob, ReplaceFirst(self.files[1].name, DotPdf, suffix),
            [pagesCropped |-> Cardinality(self.opts["cropData"])])

(***************************************************************************)
(* Font cache of text-to-pdf: memory map + IndexedDB store                 *)
(***************************************************************************)
\* AVAILABLE_FONTS (a part of it): id -> type
AVAILABLE_FONTS ==
  [id \in {"helvetica", "times", "courier", "noto-sans", "noto-sans-kr"} |->
     IF id \in {"noto-sans", "noto-sans-kr"} THEN "noto" ELSE "standard"]

NotoFonts == {id \in DOMAIN AVAILABLE_FONTS : AVAILABLE_FONTS[id] = "noto"}

\* Font files are told apart by a number; 0 stands for "no entry".
FontBytes == 1..2
NoBytes == 0
EmptyFontStore == [id \in NotoFonts |-> NoBytes]

HttpOk == 200
HttpNotFound == 404

\* text-to-pdf.ts 150-163.  The promise built inside the try block is
\* returned without await, so only a failure of openFontDB() is caught.
getCachedFontFromDB(db, fontId, e) ==
  IF e.ok THEN [threw |-> FALSE, value |-> db[fontId]]
  ELSE IF e.at = "open" THEN [threw |-> FALSE, value |-> NoBytes]
  ELSE [threw |-> TRUE, value |-> NoBytes]

\* (mutant) every font is filed under one key
saveFontToDBUnderOneKey(db, fontId, fontBuffer, e) ==
  IF e.ok THEN [threw |-> FALSE, db |-> [db EXCEPT !["noto-sans"] = fontBuffer]]
  ELSE IF e.at = "open" THEN [threw |-> FALSE, db |-> db]
  ELSE [threw |-> TRUE, db |-> db]

\* text-to-pdf.ts 165-178, same shape
saveFontToDB(db, fontId, fontBuffer, e) ==
  IF e.ok THEN [threw |-> FALSE, db |-> [db EXCEPT ![fontId] = fontBuffer]]
  ELSE IF e.at = "open" THEN [threw |-> FALSE, db |-> db]
  ELSE [threw |-> TRUE, db |-> db]

(***************************************************************************)
(* TextToPDFProcessor                                                      *)
(***************************************************************************)
\* lineHeight is in tenths (1.5), margin is the value of all four sides
DEFAULT_OPTIONS ==
  [pageSize |-> "A4", orientation |-> "portrait", fontId |-> "helvetica",
   fontSize |-> 12, lineHeight |-> 15, textColor |-> <<0, 0, 0>>, margin |-> 72,
   preserveLineBreaks |-> TRUE, wrapLines |-> TRUE]

\* Values an untyped options map can carry in directText
StringValue(s) == [t |-> "string", v |-> s, n |-> 0]
NumberValue(n) == [t |-> "number", v |-> <<>>, n |-> n]

Truthy(x) == IF x.t = "string" THEN x.v # <<>> ELSE x.n # 0

\* text-to-pdf.ts 243: pdfOptions.directText && pdfOptions.directText.trim().length > 0
directTextThrows(opts) ==
  /\ "directText" \in DOMAIN opts
  /\ Truthy(opts["directText"])
  /\ opts["directText"].t # "string"

hasDirectText(opts) ==
  /\ "directText" \in DOMAIN opts
  /\ Truthy(opts["directText"])
  /\ Len(Trim(opts["directText"].v)) > 0

\* text-to-pdf.ts 282
fontConfigOf(opts) ==
  IF "fontId" \in DOMAIN opts /\ opts["fontId"] \in DOMAIN AVAILABLE_FONTS
  THEN opts["fontId"]
  ELSE "helvetica"

\* text-to-pdf.ts 443-449
generateOutputFilename(files) ==
  IF Len(files) = 1 THEN StripExtension(files[1].name) \o DotPdf
  ELSE TextFilesPrefix \o DigitsOf(Len(files)) \o TextFilesSuffix

\* text-to-pdf.ts 325-331
textCatch(self) == createErrorOutput(self, PROCESSING_FAILED)

\* text-to-pdf.ts 230-254: up to the first await
textProcess(self, files, options, onProgress) ==
  LET s0 == [reset(self) EXCEPT !.onProgress = onProgress,
                                !.files = files, !.options = options]
      s1 == read([s0 EXCEPT !.opts = Spread(DEFAULT_OPTIONS, options)], "directText")
  IN IF directTextThrows(s1.opts) THEN rejectPromise(s1)
     ELSE IF Len(files) < 1 /\ ~hasDirectText(s1.opts)
       THEN createErrorOutput(s1, INVALID_OPTIONS)
     ELSE [updateProgress(s1, Pct(5)) EXCEPT !.pc = "loadPdfLib", !.libLoads = @ + 1]

\* text-to-pdf.ts 277-279
textBeforeCreate(self) == [updateProgress(self, Pct(20)) EXCEPT !.pc = "create"]

\* text-to-pdf.ts 256-275: loadPdfLib() settled
textAfterLoadPdfLib(self, e) ==
  IF ~e.ok THEN textCatch(self)
  ELSE IF checkCancelled(self)
    THEN createErrorOutput(observeCancel(self), PROCESSING_CANCELLED)
  ELSE LET s == updateProgress(self, Pct(10))
       IN IF hasDirectText(s.opts) \/ Len(s.files) = 0 THEN textBeforeCreate(s)
          ELSE [s EXCEPT !.pc = "text", !.bytesRead = @ + 1]

\* text-to-pdf.ts 271-275: one file.text() settled
textAfterText(self, e) ==
  IF ~e.ok THEN textCatch(self)
  ELSE LET s == [self EXCEPT !.filesRead = @ + 1]
       IN IF s.filesRead = Len(s.files) THEN textBeforeCreate(s)
          ELSE [s EXCEPT !.bytesRead = @ + 1]

\* text-to-pdf.ts 279-297: PDFDocument.create() settled
textAfterCreate(self, e) ==
  IF ~e.ok THEN textCatch(self)
  ELSE LET s == [read(self, "fontId") EXCEPT !.pdfDoc = NoDoc,
                                          !.fontConfig = fontConfigOf(self.opts)]
       IN IF AVAILABLE_FONTS[s.fontConfig] = "standard"
            THEN [s EXCEPT !.pc = "embedFont"]
          ELSE [s EXCEPT !.pc = "fontkit"]

\* text-to-pdf.ts 303-304
textBeforeEmbed(self, fontBytes) ==
  [updateProgress([self EXCEPT !.fontBytes = fontBytes, !.fontLoaded = TRUE], Pct(40))
     EXCEPT !.pc = "embedFont"]

\* text-to-pdf.ts 297-301, 183-190: import('@pdf-lib/fontkit') settled, then
\* loadFont up to its first await
textAfterFontkit(self, e, cache, db) ==
  IF ~e.ok THEN textCatch(self)
  ELSE LET s == [updateProgress(self, Pct(30)) EXCEPT
                   !.storeOps = @ + 1,
                   !.memAtStart = cache[self.fontConfig],
                   !.dbAtStart = db[self.fontConfig]]
       IN IF cache[s.fontConfig] # NoBytes THEN textBeforeEmbed(s, cache[s.fontConfig])
          ELSE [s EXCEPT !.pc = "fontDbGet", !.storeOps = @ + 1]

\* (mutant) the bytes are fetched whatever the durable tier returned
loadFontAfterDbGetAlwaysFetching(self, r) ==
  IF r.threw THEN textCatch(self)
  ELSE [self EXCEPT !.pc = "fetch"]

\* text-to-pdf.ts 190-197: getCachedFontFromDB() settled
loadFontAfterDbGet(self, r) ==
  IF r.threw THEN textCatch(self)
  ELSE IF r.value # NoBytes THEN textBeforeEmbed(self, r.value)
  ELSE [self EXCEPT !.pc = "fetch"]

\* (mutant) the body of the response is read whatever its status
loadFontAfterFetchIgnoringStatus(self, e) ==
  IF ~e.ok THEN textCatch(self)
  ELSE [self EXCEPT !.pc = "responseBody"]

\* text-to-pdf.ts 197-203: fetch() settled
loadFontAfterFetch(self, e) ==
  IF ~e.ok \/ e.size # HttpOk THEN textCatch(self)
  ELSE [self EXCEPT !.pc = "responseBody"]

\* text-to-pdf.ts 203-207: response.arrayBuffer() settled
loadFontAfterBody(self, e) ==
  IF ~e.ok THEN textCatch(self)
  ELSE [self EXCEPT !.fontBytes = e.size, !.pc = "fontDbPut", !.storeOps = @ + 2]

\* text-to-pdf.ts 207-209: saveFontToDB() settled
loadFontAfterDbPut(self, r) ==
  IF r.threw THEN textCatch(self)
  ELSE textBeforeEmbed(self, self.fontBytes)

\* text-to-pdf.ts 294, 304-309: embedFont() settled
textAfterEmbedFont(self, e) ==
  IF ~e.ok THEN textCatch(self)
  ELSE [updateProgress(self, Pct(50)) EXCEPT !.pc = "createPdfFromText"]

\* (mutant) completion is reported when serialization begins
textAfterCreatePdfFromTextCompleteEarly(self, e) ==
  IF ~e.ok THEN textCatch(self)
  ELSE [updateProgress([self EXCEPT !.pdfDoc.pageCount = e.size], Pct(100))
          EXCEPT !.pc = "save", !.saves = @ + 1]

\* text-to-pdf.ts 309-313, 334-441: createPdfFromText() settled; the layout
\* adds at least one page, e.size is the number of pages it produced
textAfterCreatePdfFromText(self, e) ==
  IF ~e.ok THEN textCatch(self)
  ELSE [updateProgress([self EXCEPT !.pdfDoc.pageCount = e.size], Pct(90))
          EXCEPT !.pc = "save", !.saves = @ + 1]

\* text-to-pdf.ts 313-323: pdfDoc.save() settled
textAfterSave(self, e) ==
  IF ~e.ok THEN textCatch(self)
  ELSE LET s == updateProgress(self, Pct(100))
           direct == hasDirectText(self.opts)
           blob == [type |-> "application/pdf", size |-> e.size, doc |-> self.pdfDoc]
       IN createSuccessOutput(s, blob,
            IF direct THEN FromTextName ELSE generateOutputFilename(self.files),
            [pageCount |-> self.pdfDoc.pageCount,
             fileCount |-> IF direct THEN 0 ELSE Len(self.files)])

(***************************************************************************)
(* Inputs                                                                  *)
(***************************************************************************)
\* no option, every default spelled out, or one option set against its default
SanitizeOptionInputs ==
  {EmptyOptions, DEFAULT_SANITIZE_OPTIONS}
    \cup {[k \in {key} |-> ~DEFAULT_SANITIZE_OPTIONS[key]] : key \in SanitizeKeys}

\* sanitize.ts 136, 156: only getPageCount() === 0 and fields.length > 0 are
\* tested, so one page, the most pages and the most fields stand for the rest
SanitizeDocuments ==
  {d \in Documents :
     /\ "setCropBox" \notin d.faults
     /\ d.pageCount \in {0, 1, MaxPages}
     /\ d.fields \in {0, MaxFields}}

CropOptionInputs ==
  {EmptyOptions, [cropData |-> {}]}
    \cup {[cropData |-> c] : c \in (SUBSET PageKeys) \ {{}}}
    \cup {[cropData |-> {1}, mode |-> m] : m \in {"metadata", "destructive"}}

CropDocuments ==
  {d \in Documents :
     /\ d.fields = 0 /\ ~d.metadata /\ ~d.openAction /\ ~d.embedded /\ d.annots = {}
     /\ d.faults \subseteq {"setCropBox"}}

DirectTextInputs ==
  {StringValue(<<>>), StringValue(<<" ">>), StringValue(<<"h", "i">>),
   NumberValue(0), NumberValue(42)}

TextOptionInputs ==
  {EmptyOptions, DEFAULT_OPTIONS}
    \cup {[fontId |-> f] : f \in {"times", "noto-sans", "comic-sans"}}
    \cup {[directText |-> v] : v \in DirectTextInputs}

(***************************************************************************)
(* Project store (src/src/lib/storage/project-db.ts): the 'projects'       *)
(* object store of IndexedDB, keyed by the records' id.  A record is kept  *)
(* with its id, toolId, status and the two timestamps; name, toolName,     *)
(* options, fileMetadata and progress are carried along exactly as toolId  *)
(* is.  The store is a set of records.                                     *)
(***************************************************************************)
\* Ids in the store, in key order
ProjectIdPool == <<"p1", "p2">>
ProjectIds == {ProjectIdPool[i] : i \in 1..Len(ProjectIdPool)}
KeyRank(id) == CHOOSE i \in 1..Len(ProjectIdPool) : ProjectIdPool[i] = id

ToolIds == {"t1", "t2"}
Statuses == {"in_progress", "paused", "completed"}

\* new Date().toISOString() on a clock reading (milliseconds), and
\* new Date(iso).getTime() on such a string
toISOString(ms) == DigitsOf(ms)

DigitValue(c) == CHOOSE d \in 0..9 : ToString(d) = c

RECURSIVE getTime(_)
getTime(iso) ==
  IF iso = <<>> THEN 0
  ELSE 10 * getTime(SubSeq(iso, 1, Len(iso) - 1)) + DigitValue(iso[Len(iso)])

\* undefined / null where a ProjectState is expected
NoProject ==
  [id |-> "", toolId |-> "", status |-> "", createdAt |-> <<>>, updatedAt |-> <<>>]

\* IDBObjectStore.get(key)
storeGet(store, id) ==
  IF \E p \in store : p.id = id THEN CHOOSE p \in store : p.id = id ELSE NoProject

\* IDBObjectStore.put(value): the record under value's key is replaced
storePut(store, value) == {p \in store : p.id # value.id} \cup {value}

\* IDBObjectStore.delete(key)
storeDelete(store, id) == {p \in store : p.id # id}

\* IDBObjectStore.getAll() / IDBIndex.getAll(key): records in key order
RECURSIVE inKeyOrder(_)
inKeyOrder(records) ==
  IF records = {} THEN <<>>
  ELSE LET first == CHOOSE p \in records :
                      \A q \in records : KeyRank(p.id) <= KeyRank(q.id)
       IN <<first>> \o inKeyOrder(records \ {first})

\* (mutant) oldest first
compareUpdatedAtAscending(a, b) == getTime(a.updatedAt) - getTime(b.updatedAt)

\* project-db.ts 187-189: the comparator handed to sort()
compareUpdatedAt(a, b) == getTime(b.updatedAt) - getTime(a.updatedAt)

\* Array.prototype.sort (stable): p goes after every element that is not
\* ordered after it
RECURSIVE insertSorted(_, _)
insertSorted(sorted, p) ==
  IF sorted = <<>> THEN <<p>>
  ELSE IF compareUpdatedAt(Head(sorted), p) <= 0
    THEN <<Head(sorted)>> \o insertSorted(Tail(sorted), p)
  ELSE <<p>> \o sorted

RECURSIVE sortByUpdatedAt(_)
sortByUpdatedAt(projects) ==
  IF projects = <<>> THEN <<>>
  ELSE insertSorted(sortByUpdatedAt(SubSeq(projects, 1, Len(projects) - 1)),
                    projects[Len(projects)])

\* How a call of the store ended: the promise resolved with a record (or
\* null) or with a list, or it was rejected.  `store` is the store after it.
Resolved(store, value, list) ==
  [store |-> store, resolved |-> TRUE, value |-> value, list |-> list]
Rejected(store) ==
  [store |-> store, resolved |-> FALSE, value |-> NoProject, list |-> <<>>]

\* What IndexedDB does to a call: everything works, openDatabase() rejects
\* (project-db.ts 37-46), or a request on the store errors, which aborts the
\* transaction.
DbOutcomes == {"ok", "open", "request"}

\* What a caller hands to saveProject and to updateProject (the declared
\* parameter types leave out id and createdAt)
NewProjectInputs == [toolId : ToolIds, status : Statuses]

UpdateInputs ==
  {EmptyOptions}
    \cup {[k \in {"status"} |-> s] : s \in Statuses}
    \cup {[k \in {"toolId"} |-> t] : t \in ToolIds}
    \cup {[k \in {"updatedAt"} |-> <<"x">>]}
    \cup {[toolId |-> "t2", status |-> "paused"]}

\* (mutant) the record is written with put(), which replaces a record
saveProjectOverwriting(store, project, id, now, outcome) ==
  IF outcome = "open" THEN Rejected(store)
  ELSE LET fullProject ==
             Spread(project, [id |-> id, createdAt |-> toISOString(now),
                              updatedAt |-> toISOString(now)])
       IN IF outcome = "request" THEN Rejected(store)
          ELSE Resolved(storePut(store, fullProject), fullProject, <<>>)

\* project-db.ts 75-103; `id` is what generateProjectId() returned.
\* store.add() errors when the key is already in the store.
saveProject(store, project, id, now, outcome) ==
  IF outcome = "open" THEN Rejected(store)
  ELSE LET fullProject ==
             Spread(project, [id |-> id, createdAt |-> toISOString(now),
                              updatedAt |-> toISOString(now)])
       IN IF outcome = "request" \/ storeGet(store, id) # NoProject
            THEN Rejected(store)
          ELSE Resolved(store \cup {fullProject}, fullProject, <<>>)

\* (mutant) an unknown id is written as a new record
updateProjectUpserting(store, id, updates, now, outcome) ==
  IF outcome \in {"open", "request"} THEN Rejected(store)
  ELSE LET existing == storeGet(store, id)
           updated == Spread(Spread([existing EXCEPT !.id = id], updates),
                             [updatedAt |-> toISOString(now)])
       IN Resolved(storePut(store, updated),
                   IF existing = NoProject THEN NoProject ELSE updated, <<>>)

\* project-db.ts 108-146
updateProject(store, id, updates, now, outcome) ==
  IF outcome \in {"open", "request"} THEN Rejected(store)
  ELSE LET existing == storeGet(store, id)
           updated == Spread(Spread(existing, updates),
                             [updatedAt |-> toISOString(now)])
       IN IF existing = NoProject THEN Resolved(store, NoProject, <<>>)
          ELSE Resolved(storePut(store, updated), updated, <<>>)

\* (mutant) an unavailable database reads as an absent record
getProjectAbsentWhenUnavailable(store, id, outcome) ==
  IF outcome = "request" THEN Rejected(store)
  ELSE IF outcome = "open" THEN Resolved(store, NoProject, <<>>)
  ELSE Resolved(store, storeGet(store, id), <<>>)

\* project-db.ts 151-171
getProject(store, id, outcome) ==
  IF outcome \in {"open", "request"} THEN Rejected(store)
  ELSE Resolved(store, storeGet(store, id), <<>>)

\* project-db.ts 176-201
getAllProjects(store, outcome) ==
  IF outcome \in {"open", "request"} THEN Rejected(store)
  ELSE Resolved(store, NoProject, sortByUpdatedAt(inKeyOrder(store)))

\* project-db.ts 206-231
getProjectsByTool(store, toolId, outcome) ==
  IF outcome \in {"open", "request"} THEN Rejected(store)
  ELSE Resolved(store, NoProject,
                sortByUpdatedAt(inKeyOrder({p \in store : p.toolId = toolId})))

\* project-db.ts 236-261
getInProgressProjects(store, outcome) ==
  IF outcome \in {"open", "request"} THEN Rejected(store)
  ELSE Resolved(store, NoProject,
                sortByUpdatedAt(inKeyOrder({p \in store : p.status = "in_progress"})))

\* (mutant) the delete request takes every record with it
deleteProjectClearing(store, id, outcome) ==
  IF outcome \in {"open", "request"} THEN Rejected(store)
  ELSE Resolved({}, NoProject, <<>>)

\* project-db.ts 266-286
deleteProject(store, id, outcome) ==
  IF outcome \in {"open", "request"} THEN Rejected(store)
  ELSE Resolved(storeDelete(store, id), NoProject, <<>>)

\* project-db.ts 291-311
clearAllProjects(store, outcome) ==
  IF outcome \in {"open", "request"} THEN Rejected(store)
  ELSE Resolved({}, NoProject, <<>>)

\* What became of the connection a call opened.  db.close() is called in
\* transaction.oncomplete only (project-db.ts 99-101, 142-144, ...): a
\* request that errors is not handled with preventDefault(), so its
\* transaction aborts and oncomplete never fires.
connectionAfter(outcome, r) ==
  IF outcome = "open" THEN "none"
  ELSE IF r.resolved THEN "closed"
  ELSE "open"

\* The last call of the store that completed
NoReply ==
  [op |-> "none", id |-> "", toolId |-> "", updates |-> EmptyOptions,
   outcome |-> "", before |-> NoProject, resolved |-> FALSE, value |-> NoProject, list |-> <<>>,
   touched |-> {}, db |-> "none"]

(***************************************************************************)
(* updateProject step by step (project-db.ts 108-146): the call is in      *)
(* flight from its await of openDatabase() until transaction.oncomplete,   *)
(* and other calls run in between.                                         *)
(***************************************************************************)
Callers == {"c1", "c2"}

NoCall ==
  [pc |-> "idle", id |-> "", updates |-> EmptyOptions, updated |-> NoProject,
   resolved |-> FALSE, value |-> NoProject, db |-> "none", waited |-> FALSE]

\* What the two concurrent callers ask for
TxUpdates == {[status |-> "paused"], [status |-> "completed"], [toolId |-> "t2"]}

\* project-db.ts 108-109: up to the await of openDatabase()
updateCalled(id, updates) ==
  [NoCall EXCEPT !.pc = "open", !.id = id, !.updates = updates]

\* project-db.ts 109-114: openDatabase() settled; the transaction is
\* created and get(id) is requested.  `queued`: transactions created before.
updateAfterOpen(call, opened, queued) ==
  IF ~opened THEN [call EXCEPT !.pc = "done"]
  ELSE [call EXCEPT !.pc = "get", !.db = "open", !.waited = (queued # <<>>)]

\* (mutant) a transaction runs as soon as it is created
transactionActiveAtOnce(queue, c) == \E i \in 1..Len(queue) : queue[i] = c

\* project-db.ts 111: db.transaction([STORE_NAME], 'readwrite').  IndexedDB
\* starts a readwrite transaction once every readwrite transaction on the
\* same store that was created before it has finished; its requests are
\* carried out only while it runs.
transactionActive(queue, c) == queue # <<>> /\ Head(queue) = c

\* project-db.ts 116-131, 138-140: getRequest.onsuccess / getRequest.onerror
updateAfterGet(call, store, now, ok) ==
  IF ~ok THEN [call EXCEPT !.pc = "done"]
  ELSE LET existing == storeGet(store, call.id)
           updated == Spread(Spread(existing, call.updates),
                             [updatedAt |-> toISOString(now)])
       IN IF existing = NoProject
            THEN [call EXCEPT !.pc = "commit", !.resolved = TRUE]
          ELSE [call EXCEPT !.pc = "put", !.updated = updated]

\* project-db.ts 129-135: putRequest.onsuccess / putRequest.onerror
updateAfterPut(call, ok) ==
  IF ~ok THEN [call EXCEPT !.pc = "done"]
  ELSE [call EXCEPT !.pc = "commit", !.resolved = TRUE, !.value = call.updated]

\* project-db.ts 142-144: transaction.oncomplete
updateAfterComplete(call) == [call EXCEPT !.pc = "done", !.db = "closed"]

\* the transaction of c is over
Dequeue(queue, c) == SelectSeq(queue, LAMBDA x : x # c)

(***************************************************************************)
(* Recent files (src/src/lib/storage/recent-files.ts): one item of         *)
(* localStorage that holds the list as JSON.                               *)
(***************************************************************************)
MAX_RECENT_FILES == 10

\* the value of an optional argument that was not given
Undefined == <<"undefined">>

\* localStorage.getItem(STORAGE_KEY) === null
NoItem == [present |-> FALSE, files |-> <<>>]

NoEntry ==
  [id |-> <<>>, name |-> <<>>, size |-> 0, processedAt |-> <<>>, toolUsed |-> "",
   toolName |-> Undefined]

\* JSON.stringify of one entry: a property whose value is undefined is left
\* out
stringifyEntry(f) ==
  IF "toolName" \in DOMAIN f /\ f.toolName # Undefined THEN f
  ELSE [k \in (DOMAIN f) \ {"toolName"} |-> f[k]]

\* JSON.stringify(files) / JSON.parse(stored)
JSONstringify(files) == [i \in 1..Len(files) |-> stringifyEntry(files[i])]
JSONparse(stored) == stored

\* What localStorage does during a call: nothing wrong; the probe of
\* isLocalStorageAvailable() fails (recent-files.ts 30-40); the read in
\* getRecentFiles() throws (49-52); setItem()/removeItem() throws.
LogFaults == {"none", "unavailable", "read", "write"}

\* recent-files.ts 23-25; `rand` is what Math.random() contributed
generateId(now, rand) == DigitsOf(now) \o <<"-">> \o rand

\* recent-files.ts 45-57
getRecentFiles(item, fault) ==
  IF fault = "unavailable" THEN <<>>
  ELSE IF fault = "read" THEN <<>>
  ELSE IF ~item.present THEN <<>>
  ELSE JSONparse(item.files)

\* recent-files.ts 83-85
SamePair(f, name, toolUsed) == f.name = name /\ f.toolUsed = toolUsed

\* Array.prototype.slice(0, n)
Slice(s, n) == SubSeq(s, 1, IF Len(s) < n THEN Len(s) ELSE n)

\* (mutant) the list is not cut
addRecentFileUncapped(item, name, size, toolUsed, toolName, now, rand, fault) ==
  LET newFile == [id |-> generateId(now, rand), name |-> name, size |-> size,
                  processedAt |-> toISOString(now), toolUsed |-> toolUsed,
                  toolName |-> toolName]
      files == getRecentFiles(item, fault)
      filtered == SelectSeq(files, LAMBDA f : ~SamePair(f, name, toolUsed))
      updated == <<newFile>> \o filtered
  IN IF fault \in {"unavailable", "write"} THEN [item |-> item, value |-> newFile]
     ELSE [item |-> [present |-> TRUE, files |-> JSONstringify(updated)],
           value |-> newFile]

\* (mutant) entries of the same name and tool are kept
addRecentFileKeepingDuplicates(item, name, size, toolUsed, toolName, now, rand, fault) ==
  LET newFile == [id |-> generateId(now, rand), name |-> name, size |-> size,
                  processedAt |-> toISOString(now), toolUsed |-> toolUsed,
                  toolName |-> toolName]
      files == getRecentFiles(item, fault)
      updated == Slice(<<newFile>> \o files, MAX_RECENT_FILES)
  IN IF fault \in {"unavailable", "write"} THEN [item |-> item, value |-> newFile]
     ELSE [item |-> [present |-> TRUE, files |-> JSONstringify(updated)],
           value |-> newFile]

\* (mutant) the new entry is put at the end
addRecentFileAppending(item, name, size, toolUsed, toolName, now, rand, fault) ==
  LET newFile == [id |-> generateId(now, rand), name |-> name, size |-> size,
                  processedAt |-> toISOString(now), toolUsed |-> toolUsed,
                  toolName |-> toolName]
      files == getRecentFiles(item, fault)
      filtered == SelectSeq(files, LAMBDA f : ~SamePair(f, name, toolUsed))
      updated == Slice(filtered, MAX_RECENT_FILES - 1) \o <<newFile>>
  IN IF fault \in {"unavailable", "write"} THEN [item |-> item, value |-> newFile]
     ELSE [item |-> [present |-> TRUE, files |-> JSONstringify(updated)],
           value |-> newFile]

\* recent-files.ts 62-95
addRecentFile(item, name, size, toolUsed, toolName, now, rand, fault) ==
  LET newFile == [id |-> generateId(now, rand), name |-> name, size |-> size,
                  processedAt |-> toISOString(now), toolUsed |-> toolUsed,
                  toolName |-> toolName]
      files == getRecentFiles(item, fault)
      filtered == SelectSeq(files, LAMBDA f : ~SamePair(f, name, toolUsed))
      updated == Slice(<<newFile>> \o filtered, MAX_RECENT_FILES)
  IN IF fault \in {"unavailable", "write"} THEN [item |-> item, value |-> newFile]
     ELSE [item |-> [present |-> TRUE, files |-> JSONstringify(updated)],
           value |-> newFile]

\* recent-files.ts 100-110
removeRecentFile(item, id, fault) ==
  LET files == getRecentFiles(item, fault)
      updated == SelectSeq(files, LAMBDA f : f.id # id)
  IN IF fault \in {"unavailable", "write"} THEN [item |-> item, value |-> NoEntry]
     ELSE [item |-> [present |-> TRUE, files |-> JSONstringify(updated)],
           value |-> NoEntry]

\* recent-files.ts 115-123
clearRecentFiles(item, fault) ==
  IF fault \in {"unavailable", "write"} THEN [item |-> item, value |-> NoEntry]
  ELSE [item |-> NoItem, value |-> NoEntry]

\* addRecentFile as two browsing contexts (tabs) of one origin run it: each
\* context runs the function to completion on its own thread, but
\* localStorage is shared and nothing holds it between the getItem of
\* getRecentFiles (line 49) and the setItem (line 90).
NoTab ==
  [pc |-> "idle", name |-> <<>>, toolUsed |-> "", files |-> <<>>, newFile |-> NoEntry]

\* recent-files.ts 68-80: the entry is built and the stored list is read
addRecentFileLoad(item, name, size, toolUsed, toolName, now, rand) ==
  [pc |-> "loaded", name |-> name, toolUsed |-> toolUsed,
   files |-> getRecentFiles(item, "none"),
   newFile |-> [id |-> generateId(now, rand), name |-> name, size |-> size,
                processedAt |-> toISOString(now), toolUsed |-> toolUsed,
                toolName |-> toolName]]

\* recent-files.ts 83-90: the list that was read is filtered, extended, cut
\* and written
addRecentFilePersist(tab) ==
  LET filtered == SelectSeq(tab.files, LAMBDA f : ~SamePair(f, tab.name, tab.toolUsed))
      updated == Slice(<<tab.newFile>> \o filtered, MAX_RECENT_FILES)
  IN [present |-> TRUE, files |-> JSONstringify(updated)]

\* The last call of the recent-files module that returned
NoLogReply ==
  [op |-> "none", name |-> <<>>, size |-> 0, toolUsed |-> "", id |-> <<>>,
   fault |-> "none", before |-> NoItem, value |-> NoEntry]

(***************************************************************************)
(* useGuidedTour (unnamed/part_001): the hook keeps isActive, currentStep  *)
(* and isFirstVisit in React state.  A state setter queues an update; the  *)
(* queued updates are applied in order, so the record below holds the      *)
(* state with every queued update applied, and `shown` what the last       *)
(* render returned.  The callbacks of a render read currentStep from that  *)
(* render (useCallback closes over it), while the updater functions they   *)
(* queue, (prev) => prev + 1, are applied to the newest state.             *)
(***************************************************************************)
MaxSteps == 3
\* calls a caller can issue on the callbacks of one render
MaxCallsPerRender == 2

\* steps[i] is represented by i + 1, null by 0
NoStep == 0

Shown(t) ==
  [isActive |-> t.isActive, currentStep |-> t.currentStep,
   isFirstVisit |-> t.isFirstVisit]

\* part_001 57-60: the first render
MountedTour(n, completed, dismissed) ==
  [steps |-> n, isActive |-> FALSE, currentStep |-> 0, isFirstVisit |-> FALSE,
   shown |-> [isActive |-> FALSE, currentStep |-> 0, isFirstVisit |-> FALSE],
   completed |-> completed, dismissed |-> dismissed, effectRan |-> FALSE,
   callsSinceRender |-> 0]

\* part_001 62-71: the effect of the first render
firstVisitEffect(t, available) ==
  IF ~available THEN [t EXCEPT !.effectRan = TRUE]
  ELSE [t EXCEPT !.effectRan = TRUE,
                 !.isFirstVisit = IF ~t.completed /\ ~t.dismissed THEN TRUE ELSE @]

\* part_001 73-76
startTour(t) == [t EXCEPT !.currentStep = 0, !.isActive = TRUE]

\* part_001 78-89
nextStep(t, available) ==
  IF t.shown.currentStep < t.steps - 1 THEN [t EXCEPT !.currentStep = @ + 1]
  ELSE [t EXCEPT !.isActive = FALSE,
                 !.completed = IF available THEN TRUE ELSE @,
                 !.isFirstVisit = FALSE]

\* part_001 91-95
prevStep(t) ==
  IF t.shown.currentStep > 0 THEN [t EXCEPT !.currentStep = @ - 1] ELSE t

\* part_001 97-101
goToStep(t, step) ==
  IF step >= 0 /\ step < t.steps THEN [t EXCEPT !.currentStep = step] ELSE t

\* part_001 103-109
endTour(t, available) ==
  [t EXCEPT !.isActive = FALSE,
            !.completed = IF available THEN TRUE ELSE @,
            !.isFirstVisit = FALSE]

\* part_001 111-117
dismissTour(t, available) ==
  [t EXCEPT !.isActive = FALSE,
            !.dismissed = IF available THEN TRUE ELSE @,
            !.isFirstVisit = FALSE]

\* part_001 119-127
resetTour(t, available) ==
  [t EXCEPT !.completed = IF available THEN FALSE ELSE @,
            !.dismissed = IF available THEN FALSE ELSE @,
            !.isFirstVisit = TRUE, !.currentStep = 0, !.isActive = FALSE]

\* part_001 129: steps[currentStep] || null, of the last render
currentStepData(t) ==
  IF t.shown.currentStep \in 0..(t.steps - 1) THEN t.shown.currentStep + 1
  ELSE NoStep

\* React renders the component again with the queued updates applied
rerender(t) == [t EXCEPT !.shown = Shown(t), !.callsSinceRender = 0]

(***************************************************************************)
(* State                                                                   *)
(***************************************************************************)
VARIABLES
  job,        \* the processor instance and its invocation
  twin,       \* a second, independent instance (used by SpecTwin only)
  fontCache,  \* text-to-pdf.ts 127: the module-level Map
  fontDB,     \* the 'fonts' object store of IndexedDB
  projects,   \* the 'projects' object store of IndexedDB
  clock,      \* the reading Date gives at this moment (milliseconds)
  reply,      \* the last call of the project store that completed
  born,       \* history: <<id, createdAt>> given to each stored project
  calls,      \* the updateProject calls in flight, by caller
  txQueue,    \* their transactions on the 'projects' store, oldest first
  recent,     \* localStorage: the item under STORAGE_KEY
  logReply,   \* the last call of the recent-files module that returned
  tabs,       \* the addRecentFile calls in flight, by browsing context
  tour        \* the guided-tour hook: React state, last render, localStorage

procVars == <<job, twin, fontCache, fontDB>>
storeVars == <<projects, clock, reply, born>>
txVars == <<calls, txQueue>>
logVars == <<recent, logReply>>
pageVars == <<tabs, tour>>
restVars == <<storeVars, txVars, logVars, pageVars>>
vars == <<procVars, storeVars, txVars, logVars, pageVars>>

StoreInit ==
  /\ projects = {}
  /\ clock = 0
  /\ reply = NoReply
  /\ born = {}

TxIdle ==
  /\ calls = [c \in Callers |-> NoCall]
  /\ txQueue = <<>>

LogIdle ==
  /\ recent = NoItem
  /\ logReply = NoLogReply

PageIdle ==
  /\ tabs = [c \in Callers |-> NoTab]
  /\ tour = MountedTour(1, FALSE, FALSE)

RestInit == StoreInit /\ TxIdle /\ LogIdle /\ PageIdle

\* createSanitizeProcessor(), createCropProcessor(), createTextToPDFProcessor()
createProcessor(kind) == [IdleJob EXCEPT !.kind = kind]

\* how createPdfFromText(), an IndexedDB operation, fetch() and
\* response.arrayBuffer() can end
CreatePdfOutcomes == {Gave(NoDoc, n) : n \in 1..MaxPages} \cup {Threw(TRUE, FALSE)}
FontDbOutcomes == {Gave(NoDoc, 0), DbFailed("open"), DbFailed("request")}
FetchOutcomes == {Gave(NoDoc, HttpOk), Gave(NoDoc, HttpNotFound), Threw(TRUE, FALSE)}
ResponseBodyOutcomes == {Gave(NoDoc, b) : b \in FontBytes} \cup {Threw(TRUE, FALSE)}

\* What the environment hands to a processor is a value or an exception of
\* the shapes above, a loaded document, or a file with a name, a type and a size.
EnvironmentOk ==
  /\ \A e \in Thrown \cup PlainOutcomes \cup SaveOutcomes \cup CreatePdfOutcomes
               \cup FontDbOutcomes \cup FetchOutcomes \cup ResponseBodyOutcomes :
       e \in {Gave(e.doc, e.size), Threw(e.isError, e.encrypt), DbFailed(e.at)}
  /\ \A d \in CropDocuments \cup SanitizeDocuments : d \in Documents
  /\ \A f \in FilePool : f = [name |-> f.name, type |-> f.type, size |-> f.size]

Init ==
  /\ EnvironmentOk
  /\ job \in {createProcessor(kind) : kind \in Kinds}
  /\ twin = job
  /\ fontCache = EmptyFontStore
  /\ fontDB = EmptyFontStore
  /\ RestInit

Suspended(self, kind, pc) == self.kind = kind /\ self.pc = pc

\* The continuation of an invocation that touches no shared store
Continue(self, e) ==
  CASE Suspended(self, "sanitize", "loadPdfLib") -> sanitizeAfterLoadPdfLib(self, e)
    [] Suspended(self, "sanitize", "arrayBuffer") -> sanitizeAfterArrayBuffer(self, e)
    [] Suspended(self, "sanitize", "load") -> sanitizeAfterLoad(self, e)
    [] Suspended(self, "sanitize", "save") -> sanitizeAfterSave(self, e)
    [] Suspended(self, "crop", "loadPdfLib") -> cropAfterLoadPdfLib(self, e)
    [] Suspended(self, "crop", "arrayBuffer") -> cropAfterArrayBuffer(self, e)
    [] Suspended(self, "crop", "load") -> cropAfterLoad(self, e)
    [] Suspended(self, "crop", "save") -> cropAfterSave(self, e)
    [] Suspended(self, "text", "loadPdfLib") -> textAfterLoadPdfLib(self, e)
    [] Suspended(self, "text", "text") -> textAfterText(self, e)
    [] Suspended(self, "text", "create") -> textAfterCreate(self, e)
    [] Suspended(self, "text", "fetch") -> loadFontAfterFetch(self, e)
    [] Suspended(self, "text", "embedFont") -> textAfterEmbedFont(self, e)
    [] Suspended(self, "text", "createPdfFromText") -> textAfterCreatePdfFromText(self, e)
    [] Suspended(self, "text", "save") -> textAfterSave(self, e)
    [] OTHER -> self

\* History: an awaited call threw, save() completed, the library reported
\* an encryption error on open.
noteOutcome(before, after, e) ==
  [after EXCEPT !.envFailed = @ \/ ~e.ok,
                !.saveDone = @ \/ (before.pc = "save" /\ e.ok),
                !.encryptOnOpen = @ \/ (before.pc = "load" /\ ~e.ok /\ e.isError /\ e.encrypt),
                !.dbReads = IF after.pc = "fontDbGet" /\ before.pc # "fontDbGet" THEN @ + 1 ELSE @,
                !.fetches = IF after.pc = "fetch" /\ before.pc # "fetch" THEN @ + 1 ELSE @,
                !.dbGet = IF before.pc = "fontDbGet" THEN DbTag(e) ELSE @,
                !.dbPut = IF before.pc = "fontDbPut" THEN DbTag(e) ELSE @,
                !.fetchEnd = IF before.pc # "fetch" THEN @
                             ELSE IF ~e.ok THEN "threw"
                             ELSE IF e.size = HttpOk THEN "ok" ELSE "status"]

Resume(self, e) == noteOutcome(self, Continue(self, e), e)

\* BasePDFProcessor.cancel()
cancel(self) ==
  [self EXCEPT !.cancelled = TRUE,
               !.cancelAt = IF @ = "never" THEN self.pc ELSE @]

(***************************************************************************)
(* Actions                                                                 *)
(***************************************************************************)
\* process(input, onProgress?): the observer is optional; a call without one
\* is made with the empty options object, the other calls pass an observer
ObserverInputs(options) == IF options = EmptyOptions THEN BOOLEAN ELSE {TRUE}

SanitizeInvoke ==
  /\ job.kind = "sanitize"
  /\ job.pc = "idle"
  /\ \E files \in FileLists, options \in SanitizeOptionInputs :
     \E onProgress \in ObserverInputs(options) :
       job' = sanitizeProcess(job, files, options, onProgress)
  /\ UNCHANGED <<twin, fontCache, fontDB, restVars>>

CropInvoke ==
  /\ job.kind = "crop"
  /\ job.pc = "idle"
  /\ \E files \in FileLists, options \in CropOptionInputs :
     \E onProgress \in ObserverInputs(options) :
       job' = cropProcess(job, files, options, onProgress)
  /\ UNCHANGED <<twin, fontCache, fontDB, restVars>>

TextInvoke ==
  /\ job.kind = "text"
  /\ job.pc = "idle"
  /\ \E files \in FileLists, options \in TextOptionInputs :
     \E onProgress \in ObserverInputs(options) :
       job' = textProcess(job, files, options, onProgress)
  /\ UNCHANGED <<twin, fontCache, fontDB, restVars>>

Settle(pc, outcomes) ==
  /\ job.pc = pc
  /\ \E e \in outcomes : job' = Resume(job, e)
  /\ UNCHANGED <<twin, fontCache, fontDB, restVars>>

LoadPdfLibSettled == Settle("loadPdfLib", PlainOutcomes)

ArrayBufferSettled == Settle("arrayBuffer", PlainOutcomes)

LoadSettled ==
  /\ job.pc = "load"
  /\ \E e \in {Gave(d, 0) : d \in IF job.kind = "crop" THEN CropDocuments
                                   ELSE SanitizeDocuments} \cup Thrown :
       job' = Resume(job, e)
  /\ UNCHANGED <<twin, fontCache, fontDB, restVars>>

SaveSettled == Settle("save", SaveOutcomes)

FileTextSettled == Settle("text", PlainOutcomes)

CreateSettled == Settle("create", PlainOutcomes)

EmbedFontSettled == Settle("embedFont", PlainOutcomes)

CreatePdfFromTextSettled ==
  Settle("createPdfFromText", CreatePdfOutcomes)

FontkitSettled ==
  /\ job.pc = "fontkit"
  /\ \E e \in PlainOutcomes :
       job' = noteOutcome(job, textAfterFontkit(job, e, fontCache, fontDB), e)
  /\ UNCHANGED <<twin, fontCache, fontDB, restVars>>

FontDbGetSettled ==
  /\ job.pc = "fontDbGet"
  /\ \E e \in FontDbOutcomes :
       LET r == getCachedFontFromDB(fontDB, job.fontConfig, e)
       IN /\ job' = noteOutcome(job, loadFontAfterDbGet(job, r), e)
          /\ fontCache' = IF ~r.threw /\ r.value # NoBytes
                          THEN [fontCache EXCEPT ![job.fontConfig] = r.value]
                          ELSE fontCache
  /\ UNCHANGED <<twin, fontDB, restVars>>

FetchSettled ==
  Settle("fetch", FetchOutcomes)

ResponseBodySettled ==
  /\ job.pc = "responseBody"
  /\ \E e \in ResponseBodyOutcomes :
       /\ job' = noteOutcome(job, loadFontAfterBody(job, e), e)
       /\ fontCache' = IF e.ok THEN [fontCache EXCEPT ![job.fontConfig] = e.size]
                       ELSE fontCache
  /\ UNCHANGED <<twin, fontDB, restVars>>

FontDbPutSettled ==
  /\ job.pc = "fontDbPut"
  /\ \E e \in FontDbOutcomes :
       LET r == saveFontToDB(fontDB, job.fontConfig, job.fontBytes, e)
       IN /\ job' = noteOutcome(job, loadFontAfterDbPut(job, r), e)
          /\ fontDB' = r.db
  /\ UNCHANGED <<twin, fontCache, restVars>>

Cancel ==
  /\ job.pc # "idle"
  /\ ~job.cancelled
  /\ job' = cancel(job)
  /\ UNCHANGED <<twin, fontCache, fontDB, restVars>>

\* The next text-to-pdf job of the session: textToPDF() constructs a new
\* processor for every call.  Only text-to-pdf invocations share state (the
\* font cache), so only their succession is followed.
NewProcessor ==
  /\ job.kind = "text"
  /\ job.pc \in {"done", "rejected"}
  /\ job' = createProcessor("text")
  /\ UNCHANGED <<twin, fontCache, fontDB, restVars>>

Next ==
  \/ SanitizeInvoke
  \/ CropInvoke
  \/ TextInvoke
  \/ LoadPdfLibSettled
  \/ ArrayBufferSettled
  \/ LoadSettled
  \/ SaveSettled
  \/ FileTextSettled
  \/ CreateSettled
  \/ EmbedFontSettled
  \/ CreatePdfFromTextSettled
  \/ FontkitSettled
  \/ FontDbGetSettled
  \/ FetchSettled
  \/ ResponseBodySettled
  \/ FontDbPutSettled
  \/ Cancel
  \/ NewProcessor

Spec == Init /\ [][Next]_vars

(***************************************************************************)
(* SpecTwin: two processors of the same class are run side by side on the  *)
(* same files, with the same observer and under the same environment (the  *)
(* same outcome of every awaited call, cancellation at the same moment).   *)
(* `job` is given an options object as the caller wrote it, `twin` the     *)
(* same object with every default spelled out.  Both have an observer, so  *)
(* that the progress sequences are compared as well.                       *)
(***************************************************************************)
\* crop.ts 20, 47: an absent mode behaves as 'metadata'; crop declares no
\* other default
CropDefaults == [mode |-> "metadata"]

DocumentedDefaults(kind) ==
  CASE kind = "sanitize" -> DEFAULT_SANITIZE_OPTIONS
    [] kind = "crop" -> CropDefaults
    [] kind = "text" -> DEFAULT_OPTIONS

\* The options object a caller writes when spelling every default out
SpelledOut(defaults, options) ==
  [k \in (DOMAIN defaults) \cup (DOMAIN options) |->
     IF k \in DOMAIN options THEN options[k] ELSE defaults[k]]

process(self, kind, files, options, onProgress) ==
  CASE kind = "sanitize" -> sanitizeProcess(self, files, options, onProgress)
    [] kind = "crop" -> cropProcess(self, files, options, onProgress)
    [] kind = "text" -> textProcess(self, files, options, onProgress)

TwinOptionInputs(kind) ==
  CASE kind = "sanitize" -> SanitizeOptionInputs
    [] kind = "crop" -> CropOptionInputs
    [] kind = "text" -> TextOptionInputs

OutcomesAt(self) ==
  CASE self.pc \in {"loadPdfLib", "arrayBuffer", "text", "create", "embedFont"} ->
         PlainOutcomes
    [] self.pc = "load" ->
         {Gave(d, 0) : d \in IF self.kind = "crop" THEN CropDocuments
                              ELSE SanitizeDocuments} \cup Thrown
    [] self.pc = "save" -> SaveOutcomes
    [] self.pc = "createPdfFromText" ->
         CreatePdfOutcomes
    [] OTHER -> {}

TwinInvoke ==
  /\ job.pc = "idle"
  /\ twin.pc = "idle"
  /\ \E files \in FileLists, options \in TwinOptionInputs(job.kind) :
       /\ job' = process(job, job.kind, files, options, TRUE)
       /\ twin' = process(twin, twin.kind, files,
                          SpelledOut(DocumentedDefaults(twin.kind), options), TRUE)
  /\ UNCHANGED <<fontCache, fontDB, restVars>>

TwinSettle ==
  /\ \E e \in OutcomesAt(job) :
       /\ job' = Resume(job, e)
       /\ twin' = Resume(twin, e)
  /\ UNCHANGED <<fontCache, fontDB, restVars>>

TwinCancel ==
  /\ job.pc # "idle"
  /\ ~job.cancelled
  /\ job' = cancel(job)
  /\ twin' = cancel(twin)
  /\ UNCHANGED <<fontCache, fontDB, restVars>>

TwinNext ==
  \/ TwinInvoke
  \/ TwinSettle
  \/ TwinCancel

SpecTwin == Init /\ [][TwinNext]_vars

\* What a caller and an observer can see of an invocation
Observable(self) ==
  [pc |-> self.pc, result |-> self.result, delivered |-> self.delivered,
   removedItems |-> self.removedItems, pdfDoc |-> self.pdfDoc]

TwinEquivalent == Observable(job) = Observable(twin)

(***************************************************************************)
(* Properties                                                              *)
(***************************************************************************)
Settled(self) == self.result.settled
Succeeded(self) == self.result.settled /\ self.result.success
FailedWith(self, code) ==
  self.result.settled /\ ~self.result.success /\ self.result.code = code

\* No awaited call threw and no library call on the document throws.
NoFault(self) == ~self.envFailed /\ self.loaded.faults = {}

\* cancel() was called after the invocation started and before save() began.
CancelledBeforeSave(self) ==
  self.cancelAt \notin {"never", "save", "done", "rejected"}

\* C1: every invocation of process() settles with exactly one of Success or
\* Failure: the promise is never rejected, a settled invocation carries one
\* result, and that result is either a Success with a blob or a Failure with
\* an error code.
C1_ExactlyOneResult ==
  /\ job.pc # "rejected"
  /\ job.pc = "done" <=> Settled(job)
  /\ Succeeded(job) => job.result.code = "" /\ job.result.blob # NoBlob
  /\ Settled(job) /\ ~Succeeded(job) => job.result.code \in ErrorCodes

\* C2: when a cancellation checkpoint has observed the flag set, the result
\* is a Failure with code PROCESSING_CANCELLED.
C2_ObservedCancelIsCancelled ==
  job.sawCancel /\ Settled(job) => FailedWith(job, PROCESSING_CANCELLED)

\* C3: when cancel() is called after the invocation started and before save()
\* begins, and nothing else goes wrong, the invocation ends as Cancelled and
\* carries no output bytes.
C3_CancelBeforeSaveIsCancelled ==
  CancelledBeforeSave(job) /\ Settled(job) /\ NoFault(job)
    => FailedWith(job, PROCESSING_CANCELLED) /\ job.result.blob = NoBlob

\* C4: the percentages delivered to the observer within one invocation are
\* non-decreasing and lie in 0..100.
C4_ProgressMonotone ==
  \A i \in 1..Len(job.delivered) :
    /\ 0 <= job.delivered[i]
    /\ job.delivered[i] <= Pct(100)
    /\ i > 1 => job.delivered[i - 1] <= job.delivered[i]

\* a crop that ran to Success over several entries, one of them out of range,
\* with an observer
C4_Witness ==
  /\ job.kind = "crop"
  /\ Succeeded(job)
  /\ \E n \in job.opts["cropData"] : n - 1 >= job.loaded.pageCount
  /\ Len(job.delivered) >= 5

\* C5: sanitize and crop called with a file count other than 1 return
\* INVALID_OPTIONS at once: no progress was delivered, the library was not
\* loaded, no file was read, no document opened and no store touched.
C5_InvalidCountTouchesNothing ==
  job.kind \in {"sanitize", "crop"} /\ job.pc # "idle" /\ Len(job.files) # 1
    => /\ FailedWith(job, INVALID_OPTIONS)
       /\ job.delivered = <<>>
       /\ job.progress = 0
       /\ job.libLoads = 0
       /\ job.bytesRead = 0
       /\ job.docLoads = 0
       /\ job.storeOps = 0
       /\ fontCache = EmptyFontStore
       /\ fontDB = EmptyFontStore

C5_Witness ==
  /\ job.kind = "crop"
  /\ Len(job.files) = 2
  /\ job.onProgress
  /\ "cropData" \in DOMAIN job.options
  /\ FailedWith(job, INVALID_OPTIONS)

\* C6: a Success is returned only after save() completed, and carries the
\* serialized document as a PDF blob; a Failure of any code carries no blob.
C6_SuccessOnlyAfterSave ==
  /\ Succeeded(job) =>
       /\ job.saveDone
       /\ job.result.blob.type = "application/pdf"
       /\ job.result.blob.doc = job.pdfDoc
  /\ Settled(job) /\ ~Succeeded(job) => job.result.blob = NoBlob

C6_Witness ==
  /\ job.kind = "crop"
  /\ Succeeded(job)
  /\ job.saveDone
  /\ job.result.blob.doc.cropped # {}

\* The document content a removedItems label stands for was present when the
\* document was loaded and is gone from the document that was saved.
TookEffect(self, label) ==
  CASE label = "form fields (flattened)" ->
         self.loaded.fields > 0 /\ self.pdfDoc.fields = 0
    [] label = "form fields" -> self.loaded.acroForm /\ ~self.pdfDoc.acroForm
    [] label = "metadata" -> self.loaded.metadata /\ ~self.pdfDoc.metadata
    [] label = "annotations" -> self.loaded.annots # {} /\ self.pdfDoc.annots = {}
    [] label = "JavaScript" -> self.loaded.openAction /\ ~self.pdfDoc.openAction
    [] label = "embedded files" -> self.loaded.embedded /\ ~self.pdfDoc.embedded
    [] label = "links" ->
         "Link" \in self.loaded.annots /\ "Link" \notin self.pdfDoc.annots
    [] OTHER -> FALSE

\* C7: in a sanitize Success, every label of removedItems names a removal
\* that took effect on the document.
C7_RemovedItemsTookEffect ==
  job.kind = "sanitize" /\ Succeeded(job) =>
    \A i \in 1..Len(job.result.metadata.removedItems) :
      TookEffect(job, job.result.metadata.removedItems[i])

\* C8: sanitizing with default options a document with a page, a JavaScript
\* open action and a form field, when no call fails and no cancellation is
\* requested before save, yields Success; removedItems has "JavaScript" and
\* "form fields (flattened)", and the metadata reports both sizes.
C8_SanitizeScenario ==
  /\ job.kind = "sanitize"
  /\ job.options \in {EmptyOptions, DEFAULT_SANITIZE_OPTIONS}
  /\ Settled(job)
  /\ NoFault(job)
  /\ ~CancelledBeforeSave(job)
  /\ job.loaded.pageCount >= 1
  /\ job.loaded.openAction
  /\ job.loaded.fields >= 1
  => /\ Succeeded(job)
     /\ Contains(job.result.metadata.removedItems, "JavaScript")
     /\ Contains(job.result.metadata.removedItems, "form fields (flattened)")
     /\ job.result.metadata.originalSize = job.files[1].size
     /\ job.result.metadata.newSize = job.result.blob.size

C8_Witness ==
  /\ job.kind = "sanitize"
  /\ job.options = EmptyOptions
  /\ Succeeded(job)
  /\ job.loaded.pageCount = 1
  /\ job.loaded.openAction
  /\ job.loaded.fields = 1
  /\ Contains(job.result.metadata.removedItems, "JavaScript")
  /\ Contains(job.result.metadata.removedItems, "form fields (flattened)")

C10_EncryptedIsReported ==
  job.kind \in {"sanitize", "crop"} /\ job.encryptOnOpen /\ Settled(job)
    => FailedWith(job, PDF_ENCRYPTED)

\* C11: when sanitize or crop opened a document with zero pages (nothing
\* else failed, no cancellation was requested), the invocation ends in
\* Failure PDF_MALFORMED and never in Success.
C11_ZeroPagesIsMalformed ==
  /\ job.kind \in {"sanitize", "crop"}
  /\ Settled(job)
  /\ job.docLoads > 0
  /\ NoFault(job)
  /\ job.cancelAt = "never"
  /\ job.loaded.pageCount = 0
  => FailedWith(job, PDF_MALFORMED)

\* C12: in sanitize, when the document loaded with at least one page, no
\* awaited call (load, save) failed and no cancellation was requested, the
\* result is Success whatever library calls throw inside the removal steps,
\* and the run went through every later step up to the final report.
C12_RemovalFaultsNeverAbort ==
  /\ job.kind = "sanitize"
  /\ Settled(job)
  /\ job.docLoads > 0
  /\ ~job.envFailed
  /\ job.cancelAt = "never"
  /\ job.loaded.pageCount > 0
  => Succeeded(job) /\ job.progress = Pct(100)

(***************************************************************************)
(* SpecFont: text-to-pdf jobs with a downloaded font, one after another    *)
(* and over several sessions.  A new session (page load) starts with an    *)
(* empty memory map while the IndexedDB store keeps what was put.  A page  *)
(* that is closed while a job is in flight leaves the stores as some       *)
(* failed call would, so sessions are ended between jobs only.             *)
(***************************************************************************)
FontInit ==
  /\ EnvironmentOk
  /\ job = createProcessor("text")
  /\ twin = job
  /\ fontCache = EmptyFontStore
  /\ fontDB = EmptyFontStore
  /\ RestInit

TextFile == CHOOSE f \in FilePool : f.type = "text/plain"

FontInvoke ==
  /\ job.pc = "idle"
  /\ \E fontId \in NotoFonts :
       job' = textProcess(job, <<TextFile>>, [fontId |-> fontId], TRUE)
  /\ UNCHANGED <<twin, fontCache, fontDB, restVars>>

\* text-to-pdf.ts 127: the module is evaluated again, the Map is new
NewSession ==
  /\ job.pc \in {"done", "rejected"}
  /\ job' = createProcessor("text")
  /\ fontCache' = EmptyFontStore
  /\ UNCHANGED <<twin, fontDB, restVars>>

FontNext ==
  \/ FontInvoke
  \/ LoadPdfLibSettled
  \/ FileTextSettled
  \/ CreateSettled
  \/ FontkitSettled
  \/ FontDbGetSettled
  \/ FetchSettled
  \/ ResponseBodySettled
  \/ FontDbPutSettled
  \/ EmbedFontSettled
  \/ CreatePdfFromTextSettled
  \/ SaveSettled
  \/ Cancel
  \/ NewProcessor
  \/ NewSession

SpecFont == FontInit /\ [][FontNext]_vars

\* loadFont(fontConfig.id, url) was called in this invocation
LoadFontCalled(self) == self.kind = "text" /\ self.storeOps > 0

\* C13: (a) a loadFont that fetched bytes and whose durable write succeeded
\* leaves these bytes under its key in both tiers; (b) a loadFont that finds
\* its key in the memory tier returns the bytes held there; (c) with the
\* memory tier empty (new session) and a durable read that succeeds, it
\* returns the bytes the durable tier holds, with no network fetch, and puts
\* them into the memory tier.
C13_FontRoundTrip ==
  /\ LoadFontCalled(job) /\ job.dbPut = "ok" =>
       /\ job.fontLoaded
       /\ fontCache[job.fontConfig] = job.fontBytes
       /\ fontDB[job.fontConfig] = job.fontBytes
  /\ LoadFontCalled(job) /\ job.memAtStart # NoBytes =>
       /\ job.fontLoaded
       /\ job.fontBytes = job.memAtStart
       /\ job.dbReads = 0
       /\ job.fetches = 0
  /\ LoadFontCalled(job) /\ job.memAtStart = NoBytes
       /\ job.dbAtStart # NoBytes /\ job.dbGet = "ok" =>
       /\ job.fontLoaded
       /\ job.fontBytes = job.dbAtStart
       /\ job.fetches = 0
       /\ fontCache[job.fontConfig] = job.dbAtStart

\* in a new session the font comes back from IndexedDB without a fetch
C13_Witness ==
  /\ job.fontConfig = "noto-sans-kr"
  /\ job.fontLoaded
  /\ job.memAtStart = NoBytes
  /\ job.dbAtStart = 2
  /\ job.dbGet = "ok"
  /\ job.fontBytes = 2
  /\ job.fetches = 0
  /\ fontDB["noto-sans"] = 1

\* C14: when the durable write of freshly fetched bytes fails, on opening
\* the database or on the put request, loadFont still returns the fetched
\* bytes, the memory tier holds them, and the job goes on to embed the font.
C14_DurableWriteFailureSwallowed ==
  LoadFontCalled(job) /\ job.dbPut \in {"open", "request"} =>
    /\ job.fontLoaded
    /\ job.fontBytes # NoBytes
    /\ fontCache[job.fontConfig] = job.fontBytes
    /\ ~(FailedWith(job, PROCESSING_FAILED) /\ job.progress < Pct(40))

\* C15: when the durable read fails, because the database cannot be opened
\* or because the read request errors, it yields absent without throwing, so
\* loadFont goes on to fetch; and when the database cannot be opened for
\* the write either, the write is a no-op and loadFont returns the fetched
\* bytes, which the memory tier holds.
C15_DurableTierDegrades ==
  /\ LoadFontCalled(job) /\ job.dbGet \in {"open", "request"} =>
       job.fetches = 1
  /\ LoadFontCalled(job) /\ job.dbGet \in {"open", "request"} /\ job.dbPut = "open" =>
       /\ job.fontLoaded
       /\ fontCache[job.fontConfig] = job.fontBytes
       /\ fontDB[job.fontConfig] = job.dbAtStart

(***************************************************************************)
(* SpecProj: a caller makes calls of the project store one after another:  *)
(* it awaits a call, takes its result and goes on to the next call, while  *)
(* the clock moves on.  Two readings of Date can be the same millisecond;  *)
(* the clock is taken never to go back.                                    *)
(***************************************************************************)
ProjInit ==
  /\ job = IdleJob
  /\ twin = IdleJob
  /\ fontCache = EmptyFontStore
  /\ fontDB = EmptyFontStore
  /\ RestInit

\* A call completed with r.  History: what IndexedDB did to it, the record
\* its id named before the call, the ids whose stored record is not what it
\* was, and the id and createdAt each stored project was created with.
Complete(op, id, toolId, updates, outcome, r) ==
  /\ reply = NoReply
  /\ projects' = r.store
  /\ reply' = [op |-> op, id |-> id, toolId |-> toolId, updates |-> updates,
               outcome |-> outcome, before |-> storeGet(projects, id), resolved |-> r.resolved,
               value |-> r.value, list |-> r.list,
               touched |-> {i \in ProjectIds :
                              storeGet(r.store, i) # storeGet(projects, i)},
               db |-> connectionAfter(outcome, r)]
  /\ born' = {b \in born : \E p \in r.store : p.id = b[1]}
               \cup (IF op = "save" /\ r.resolved /\ ~\E b \in born : b[1] = r.value.id
                     THEN {<<r.value.id, r.value.createdAt>>} ELSE {})
  /\ UNCHANGED <<procVars, txVars, logVars, pageVars, clock>>

Tick ==
  /\ clock < MaxClock
  /\ clock' = clock + 1
  /\ UNCHANGED <<procVars, txVars, logVars, pageVars, projects, reply, born>>

\* the caller's await returns: the result is taken
TakeResult ==
  /\ reply # NoReply
  /\ reply' = NoReply
  /\ UNCHANGED <<procVars, txVars, logVars, pageVars, projects, clock, born>>

\* generateProjectId() (project-db.ts 68-70) returns some id
SaveProject ==
  \E project \in NewProjectInputs, id \in ProjectIds, outcome \in DbOutcomes :
    Complete("save", id, "", EmptyOptions, outcome,
             saveProject(projects, project, id, clock, outcome))

UpdateProject ==
  \E id \in ProjectIds, updates \in UpdateInputs, outcome \in DbOutcomes :
    Complete("update", id, "", updates, outcome,
             updateProject(projects, id, updates, clock, outcome))

GetProject ==
  \E id \in ProjectIds, outcome \in DbOutcomes :
    Complete("get", id, "", EmptyOptions, outcome, getProject(projects, id, outcome))

GetAllProjects ==
  \E outcome \in DbOutcomes :
    Complete("getAll", "", "", EmptyOptions, outcome, getAllProjects(projects, outcome))

GetProjectsByTool ==
  \E toolId \in ToolIds, outcome \in DbOutcomes :
    Complete("getByTool", "", toolId, EmptyOptions, outcome,
             getProjectsByTool(projects, toolId, outcome))

GetInProgressProjects ==
  \E outcome \in DbOutcomes :
    Complete("getInProgress", "", "", EmptyOptions, outcome,
             getInProgressProjects(projects, outcome))

DeleteProject ==
  \E id \in ProjectIds, outcome \in DbOutcomes :
    Complete("delete", id, "", EmptyOptions, outcome, deleteProject(projects, id, outcome))

ClearAllProjects ==
  \E outcome \in DbOutcomes :
    Complete("clear", "", "", EmptyOptions, outcome, clearAllProjects(projects, outcome))

ProjNext ==
  \/ Tick
  \/ SaveProject
  \/ UpdateProject
  \/ GetProject
  \/ GetAllProjects
  \/ GetProjectsByTool
  \/ GetInProgressProjects
  \/ DeleteProject
  \/ ClearAllProjects
  \/ TakeResult

SpecProj == ProjInit /\ [][ProjNext]_vars

\* updateProject found the record it was asked to update and resolved
UpdatedExisting ==
  reply.op = "update" /\ reply.resolved /\ reply.before # NoProject

\* C16: updateProject on an existing project p returns a record whose
\* updatedAt is strictly greater than p's, in which every field of the
\* update has the value given and every other field keeps p's value, and
\* the stored record equals the returned one.
C16_UpdateRefreshesAndMerges ==
  UpdatedExisting =>
    /\ getTime(reply.value.updatedAt) > getTime(reply.before.updatedAt)
    /\ \A k \in DOMAIN reply.updates : reply.value[k] = reply.updates[k]
    /\ \A k \in (DOMAIN reply.before) \ (DOMAIN reply.updates \cup {"updatedAt"}) :
         reply.value[k] = reply.before[k]
    /\ storeGet(projects, reply.id) = reply.value

\* C17: updateProject on an id that is not in the store, with a database
\* that opens and a read that succeeds, resolves with null, creates no
\* record and leaves every stored record as it was.
C17_UpdateUnknownIsAbsent ==
  reply.op = "update" /\ reply.outcome = "ok" /\ reply.before = NoProject =>
    /\ reply.resolved
    /\ reply.value = NoProject
    /\ reply.touched = {}
    /\ storeGet(projects, reply.id) = NoProject

\* an unknown id is updated while another project is stored
C17_Witness ==
  /\ reply.op = "update"
  /\ reply.outcome = "ok"
  /\ reply.before = NoProject
  /\ reply.resolved
  /\ reply.updates = [toolId |-> "t2", status |-> "paused"]
  /\ projects # {}

\* C17 as stated, with no condition on the database: updateProject on an
\* id that is not in the store always resolves with null.
C17_UpdateUnknownNeverRejects ==
  reply.op = "update" /\ reply.before = NoProject =>
    reply.resolved /\ reply.value = NoProject

\* C18: once a stored project is completed, an update does not move it
\* back: a request for another status is rejected or ignored and the stored
\* status stays completed.
C18_StatusOnlyMovesForward ==
  reply.op = "update" /\ reply.before.status = "completed" =>
    storeGet(projects, reply.id).status = "completed"

\* C19: no two stored projects share an id, and the id and createdAt of
\* every stored project are those it was given when saveProject created it.
C19_IdAndCreatedAtImmutable ==
  /\ \A p \in projects, q \in projects : p.id = q.id => p = q
  /\ {<<p.id, p.createdAt>> : p \in projects} = born

\* a project was updated after the millisecond it was created in, and a
\* saveProject whose generated id was already taken has been rejected
C19_Witness ==
  /\ reply.op = "save"
  /\ reply.outcome = "ok"
  /\ ~reply.resolved
  /\ getTime(reply.before.updatedAt) > getTime(reply.before.createdAt)
  /\ Cardinality(projects) = 2

Elements(seq) == {seq[i] : i \in 1..Len(seq)}

\* seq lists exactly the records of S, newest update first
ListsExactly(seq, S) ==
  /\ Elements(seq) = S
  /\ Len(seq) = Cardinality(S)
  /\ \A i \in 1..(Len(seq) - 1) :
       getTime(seq[i].updatedAt) >= getTime(seq[i + 1].updatedAt)

\* C20: with a working database, getAllProjects resolves with every stored
\* project, getProjectsByTool(t) with exactly those whose toolId is t,
\* getInProgressProjects with exactly those whose status is in_progress,
\* each ordered by updatedAt descending.
C20_ListsAreExactAndOrdered ==
  /\ reply.op = "getAll" /\ reply.outcome = "ok" =>
       reply.resolved /\ ListsExactly(reply.list, projects)
  /\ reply.op = "getByTool" /\ reply.outcome = "ok" =>
       /\ reply.resolved
       /\ ListsExactly(reply.list, {p \in projects : p.toolId = reply.toolId})
  /\ reply.op = "getInProgress" /\ reply.outcome = "ok" =>
       /\ reply.resolved
       /\ ListsExactly(reply.list, {p \in projects : p.status = "in_progress"})

\* the record with the later key was updated later and is listed first
C20_Witness ==
  /\ reply.op = "getAll"
  /\ reply.resolved
  /\ Len(reply.list) = 2
  /\ reply.list[1].id = "p2"
  /\ getTime(reply.list[1].updatedAt) > getTime(reply.list[2].updatedAt)
  /\ reply.list[2].status = "paused"

\* C21: when the database cannot be opened, every operation of the project
\* store rejects; none resolves, with a value or without, and the store is
\* left as it was.
C21_UnavailableEngineRejects ==
  reply.op # "none" /\ reply.outcome = "open" =>
    ~reply.resolved /\ reply.touched = {}

\* updateProject was called for a stored project while the database could
\* not be opened
C21_Witness ==
  /\ reply.op = "update"
  /\ reply.before # NoProject
  /\ reply.outcome = "open"
  /\ ~reply.resolved
  /\ projects # {}

\* C30: every call of the project store that opened a connection has
\* closed it by the time it is finished, whether its request succeeded or
\* errored.
C30_ConnectionAlwaysReleased ==
  reply.op # "none" => reply.db # "open"

\* sanitize.ts 389-391, crop.ts 141-143, text-to-pdf.ts 451-453
getAcceptedTypes(kind) ==
  CASE kind = "sanitize" -> {"application/pdf"}
    [] kind = "crop" -> {"application/pdf"}
    [] OTHER -> {"text/plain", ".txt"}

\* The base name of a filename: the name without its last extension
BaseNameOf(name) ==
  IF LastIndexOf(name, ".") = 0 THEN name
  ELSE SubSeq(name, 1, LastIndexOf(name, ".") - 1)

\* The suffix a transform puts after the base name
SuffixOf(self) ==
  CASE self.kind = "sanitize" -> SanitizedSuffix
    [] isDestructive(self) -> CroppedFlattenedSuffix
    [] OTHER -> CroppedSuffix

\* C27: in a Success of sanitize or crop the output filename is the base
\* name of the input file followed by the suffix of the transform, and so
\* differs from the input filename.
C27_OutputNameIsBasePlusSuffix ==
  Succeeded(job) /\ job.kind \in {"sanitize", "crop"} =>
    /\ job.result.filename = BaseNameOf(job.files[1].name) \o SuffixOf(job)
    /\ job.result.filename # job.files[1].name

\* C28: a job that has reached the loading of a document or the saving of
\* one holds only files whose media type its processor accepts.
C28_UnacceptedTypeNeverLoaded ==
  job.pc \in {"load", "save"} =>
    \A i \in 1..Len(job.files) : job.files[i].type \in getAcceptedTypes(job.kind)

\* C29: a loadFont that finds its key in the memory tier makes no durable
\* read and no fetch; one that misses there makes exactly one durable read;
\* when that read returns bytes they are put into the memory tier and
\* nothing is fetched; a fetch is made only after a miss in both tiers, and
\* a miss in both tiers leads to the fetch, not to an error.
C29_LookupOrder ==
  /\ LoadFontCalled(job) /\ job.memAtStart # NoBytes =>
       job.dbReads = 0 /\ job.fetches = 0
  /\ LoadFontCalled(job) /\ job.memAtStart = NoBytes => job.dbReads = 1
  /\ LoadFontCalled(job) /\ job.memAtStart = NoBytes
       /\ job.dbGet = "ok" /\ job.dbAtStart # NoBytes =>
       job.fetches = 0 /\ fontCache[job.fontConfig] = job.dbAtStart
  /\ LoadFontCalled(job) /\ job.fetches > 0 =>
       /\ job.fetches = 1
       /\ job.memAtStart = NoBytes
       /\ job.dbGet = "open" \/ (job.dbGet = "ok" /\ job.dbAtStart = NoBytes)
  /\ LoadFontCalled(job) /\ job.memAtStart = NoBytes
       /\ job.dbGet = "ok" /\ job.dbAtStart = NoBytes =>
       job.fetches = 1

\* a miss in both tiers was followed by one fetch and the font was loaded
C29_Witness ==
  /\ job.fontLoaded
  /\ job.memAtStart = NoBytes
  /\ job.dbAtStart = NoBytes
  /\ job.dbGet = "ok"
  /\ job.dbReads = 1
  /\ job.fetches = 1
  /\ fontCache["noto-sans"] # NoBytes
  /\ job.fontConfig = "noto-sans-kr"

(***************************************************************************)
(* SpecTx: two callers of updateProject at once, on a store that holds     *)
(* the project saveProject wrote at reading 0.  The callers wait for all   *)
(* their calls before they call again.                                     *)
(***************************************************************************)
StoredAtStart ==
  saveProject({}, [toolId |-> "t1", status |-> "in_progress"], "p1", 0, "ok").value

TxInit ==
  /\ job = IdleJob
  /\ twin = IdleJob
  /\ fontCache = EmptyFontStore
  /\ fontDB = EmptyFontStore
  /\ projects = {StoredAtStart}
  /\ clock = 0
  /\ reply = NoReply
  /\ born = {<<StoredAtStart.id, StoredAtStart.createdAt>>}
  /\ TxIdle
  /\ LogIdle
  /\ PageIdle

TxLeaves == UNCHANGED <<procVars, reply, born, logVars, pageVars>>

UpdateCall(c) ==
  /\ calls[c].pc = "idle"
  /\ \E id \in ProjectIds, updates \in TxUpdates :
       calls' = [calls EXCEPT ![c] = updateCalled(id, updates)]
  /\ UNCHANGED <<projects, clock, txQueue>>
  /\ TxLeaves

UpdateOpened(c) ==
  /\ calls[c].pc = "open"
  /\ \E opened \in BOOLEAN :
       /\ calls' = [calls EXCEPT ![c] = updateAfterOpen(calls[c], opened, txQueue)]
       /\ txQueue' = IF opened THEN Append(txQueue, c) ELSE txQueue
  /\ UNCHANGED <<projects, clock>>
  /\ TxLeaves

UpdateGetSettled(c) ==
  /\ calls[c].pc = "get"
  /\ transactionActive(txQueue, c)
  /\ \E ok \in BOOLEAN :
       /\ calls' = [calls EXCEPT ![c] = updateAfterGet(calls[c], projects, clock, ok)]
       /\ txQueue' = IF ok THEN txQueue ELSE Dequeue(txQueue, c)
  /\ UNCHANGED <<projects, clock>>
  /\ TxLeaves

UpdatePutSettled(c) ==
  /\ calls[c].pc = "put"
  /\ transactionActive(txQueue, c)
  /\ \E ok \in BOOLEAN :
       /\ calls' = [calls EXCEPT ![c] = updateAfterPut(calls[c], ok)]
       /\ projects' = IF ok THEN storePut(projects, calls[c].updated) ELSE projects
       /\ txQueue' = IF ok THEN txQueue ELSE Dequeue(txQueue, c)
  /\ UNCHANGED clock
  /\ TxLeaves

UpdateCompleted(c) ==
  /\ calls[c].pc = "commit"
  /\ transactionActive(txQueue, c)
  /\ calls' = [calls EXCEPT ![c] = updateAfterComplete(calls[c])]
  /\ txQueue' = Dequeue(txQueue, c)
  /\ UNCHANGED <<projects, clock>>
  /\ TxLeaves

\* Promise.all of the callers returned
CallsReturn ==
  /\ \A c \in Callers : calls[c].pc \in {"idle", "done"}
  /\ \E c \in Callers : calls[c].pc = "done"
  /\ calls' = [c \in Callers |-> NoCall]
  /\ UNCHANGED <<projects, clock, txQueue>>
  /\ TxLeaves

TxNext ==
  \/ Tick
  \/ \E c \in Callers : UpdateCall(c)
  \/ \E c \in Callers : UpdateOpened(c)
  \/ \E c \in Callers : UpdateGetSettled(c)
  \/ \E c \in Callers : UpdatePutSettled(c)
  \/ \E c \in Callers : UpdateCompleted(c)
  \/ CallsReturn

SpecTx == TxInit /\ [][TxNext]_vars

\* both calls updated the same stored project, each its own fields
BothUpdated(c, d) ==
  /\ c # d
  /\ calls[c].pc = "done" /\ calls[c].resolved /\ calls[c].value # NoProject
  /\ calls[d].pc = "done" /\ calls[d].resolved /\ calls[d].value # NoProject
  /\ calls[c].id = calls[d].id
  /\ DOMAIN calls[c].updates \cap DOMAIN calls[d].updates = {}

\* C22: when two updateProject calls on the same stored project, with
\* disjoint fields, have both resolved, the stored record holds the fields
\* of both, however their steps were interleaved.
C22_NoLostUpdate ==
  \A c \in Callers, d \in Callers :
    BothUpdated(c, d) =>
      \A k \in DOMAIN calls[c].updates :
        storeGet(projects, calls[c].id)[k] = calls[c].updates[k]

\* the second call created its transaction while the first one's was still
\* running, and both have resolved
C22_Witness ==
  /\ BothUpdated("c1", "c2")
  /\ calls["c2"].waited
  /\ calls["c1"].updates = [status |-> "paused"]
  /\ calls["c2"].updates = [toolId |-> "t2"]
  /\ getTime(calls["c2"].value.updatedAt) > getTime(calls["c1"].value.updatedAt)

(***************************************************************************)
(* SpecLog: calls of addRecentFile, removeRecentFile and clearRecentFiles, *)
(* one after the other, on a log that is empty or was filled from empty    *)
(* by addRecentFile up to one entry below the maximum or up to it.  All    *)
(* calls read the same clock reading: what tells two entries of one name   *)
(* and tool apart is the random part of their id.                          *)
(***************************************************************************)
LogName(k) == <<"f">> \o DigitsOf(k)

\* the item after k files were recorded in an empty log
RECURSIVE LogAfter(_)
LogAfter(k) ==
  IF k = 0 THEN NoItem
  ELSE addRecentFile(LogAfter(k - 1), LogName(k), k, "t1", Undefined, 0,
                     DigitsOf(k), "none").item

LogStarts == {0, MAX_RECENT_FILES - 1, MAX_RECENT_FILES}

\* What the callers record: a new name under one tool and under another,
\* and the oldest name of the log under the tool it was recorded with
RecordInputs ==
  { [name |-> <<"g">>, size |-> 1, toolUsed |-> "t1", toolName |-> Undefined],
    [name |-> <<"g">>, size |-> 2, toolUsed |-> "t2", toolName |-> <<"T">>],
    [name |-> LogName(1), size |-> 3, toolUsed |-> "t1", toolName |-> <<"T">>] }

RandomParts == {<<"a">>, <<"b">>}

\* The ids a caller removes: the newest entry's, the oldest entry's, one
\* that is not in the list
RemoveInputs(item) ==
  {<<"x">>} \cup (IF item.files = <<>> THEN {}
                  ELSE {item.files[1].id, item.files[Len(item.files)].id})

LogInit ==
  /\ job = IdleJob
  /\ twin = IdleJob
  /\ fontCache = EmptyFontStore
  /\ fontDB = EmptyFontStore
  /\ StoreInit
  /\ TxIdle
  /\ recent \in {LogAfter(k) : k \in LogStarts}
  /\ logReply = NoLogReply
  /\ PageIdle

Returned(op, in, id, fault, r) ==
  /\ logReply = NoLogReply
  /\ recent' = r.item
  /\ logReply' = [op |-> op, name |-> in.name, size |-> in.size,
                  toolUsed |-> in.toolUsed, id |-> id, fault |-> fault,
                  before |-> recent, value |-> r.value]
  /\ UNCHANGED <<procVars, storeVars, txVars, pageVars>>

AddRecentFile ==
  \E in \in RecordInputs, rand \in RandomParts, fault \in LogFaults :
    Returned("add", in, <<>>, fault,
             addRecentFile(recent, in.name, in.size, in.toolUsed, in.toolName,
                           clock, rand, fault))

RemoveRecentFile ==
  \E id \in RemoveInputs(recent), fault \in LogFaults :
    Returned("remove", NoEntry, id, fault, removeRecentFile(recent, id, fault))

\* clearRecentFiles reads nothing
ClearRecentFiles ==
  \E fault \in LogFaults \ {"read"} :
    Returned("clear", NoEntry, <<>>, fault, clearRecentFiles(recent, fault))

\* the caller goes on
LogResultTaken ==
  /\ logReply # NoLogReply
  /\ logReply' = NoLogReply
  /\ UNCHANGED <<procVars, storeVars, txVars, pageVars, recent>>

LogNext ==
  \/ AddRecentFile
  \/ RemoveRecentFile
  \/ ClearRecentFiles
  \/ LogResultTaken

SpecLog == LogInit /\ [][LogNext]_vars

\* the entries of item that are not of the name and tool just recorded
OthersOf(item) ==
  SelectSeq(item.files, LAMBDA f : ~SamePair(f, logReply.name, logReply.toolUsed))

\* addRecentFile returned after it wrote the list it had read
Recorded == logReply.op = "add" /\ logReply.fault = "none"

\* C23: the stored list never holds more than MAX_RECENT_FILES entries;
\* when a recorded entry would be the one above the maximum, the list is
\* the new entry followed by all former entries but the last.
C23_CappedEvictingOldest ==
  /\ Len(recent.files) <= MAX_RECENT_FILES
  /\ Recorded /\ Len(OthersOf(logReply.before)) = MAX_RECENT_FILES =>
       /\ Len(recent.files) = MAX_RECENT_FILES
       /\ Tail(recent.files) =
            SubSeq(logReply.before.files, 1, MAX_RECENT_FILES - 1)

\* a new name was recorded in a full log
C23_Witness ==
  /\ Recorded
  /\ Len(OthersOf(logReply.before)) = MAX_RECENT_FILES
  /\ recent.files[1].name = <<"g">>
  /\ recent.files[MAX_RECENT_FILES].name = LogName(2)

\* C24: no two stored entries have the same name and tool; recording a
\* name and tool that the list holds puts the new entry first, removes the
\* old one and leaves the length as it was.
C24_OneEntryPerNameAndTool ==
  /\ \A i \in 1..Len(recent.files), j \in 1..Len(recent.files) :
       SamePair(recent.files[i], recent.files[j].name, recent.files[j].toolUsed)
         => i = j
  /\ Recorded /\ Len(OthersOf(logReply.before)) < Len(logReply.before.files) =>
       /\ Len(recent.files) = Len(logReply.before.files)
       /\ recent.files[1].id = logReply.value.id
       /\ SamePair(recent.files[1], logReply.name, logReply.toolUsed)
       /\ Tail(recent.files) = OthersOf(logReply.before)

\* the oldest entry of a full log was recorded again
C24_Witness ==
  /\ Recorded
  /\ logReply.name = LogName(1)
  /\ Len(logReply.before.files) = MAX_RECENT_FILES
  /\ logReply.before.files[MAX_RECENT_FILES].name = LogName(1)
  /\ recent.files[1].size = 3
  /\ Len(recent.files) = MAX_RECENT_FILES

\* C25: after addRecentFile wrote the list its entry is first and the
\* entries behind it are former entries in their former order; after
\* removeRecentFile wrote the list it holds the former entries of another
\* id in their former order.
C25_NewestFirstOrderKept ==
  /\ Recorded =>
       /\ recent.files[1] = stringifyEntry(logReply.value)
       /\ Tail(recent.files) =
            Slice(OthersOf(logReply.before), MAX_RECENT_FILES - 1)
  /\ logReply.op = "remove" /\ logReply.fault = "none" =>
       recent.files =
         SelectSeq(logReply.before.files, LAMBDA f : f.id # logReply.id)

\* an entry in the middle of the list was recorded again and moved to the
\* front, past entries that kept their order
C25_Witness ==
  /\ Recorded
  /\ Len(recent.files) >= 3
  /\ logReply.before.files[2].name = <<"g">>
  /\ logReply.before.files[2].toolUsed = "t1"
  /\ logReply.name = <<"g">>
  /\ logReply.toolUsed = "t1"
  /\ recent.files[2] = logReply.before.files[1]
  /\ recent.files[3] = logReply.before.files[3]

\* C26: when localStorage is unavailable or a read or a write of it throws,
\* addRecentFile returns the entry with the name, size and tool it was
\* given, and the stored item is what it was before the call, for
\* addRecentFile, removeRecentFile and clearRecentFiles alike.
C26_FailSoftLeavesListUnchanged ==
  logReply.op # "none" /\ logReply.fault # "none" =>
    /\ logReply.op = "add" =>
         /\ logReply.value.name = logReply.name
         /\ logReply.value.size = logReply.size
         /\ logReply.value.toolUsed = logReply.toolUsed
    /\ recent = logReply.before

(***************************************************************************)
(* SpecMode: two crop processors are run side by side on the same file,    *)
(* with the same crop data and observer and under the same environment.    *)
(* `job` is asked for the metadata crop (mode 'metadata' or no mode),      *)
(* `twin` for the destructive crop.                                        *)
(***************************************************************************)
ModeInit ==
  /\ EnvironmentOk
  /\ job = createProcessor("crop")
  /\ twin = job
  /\ fontCache = EmptyFontStore
  /\ fontDB = EmptyFontStore
  /\ RestInit

\* { ...options, mode }
WithMode(options, mode) ==
  [k \in (DOMAIN options) \cup {"mode"} |-> IF k = "mode" THEN mode ELSE options[k]]

MetadataInputs ==
  {o \in CropOptionInputs : "mode" \in DOMAIN o => o["mode"] = "metadata"}

ModeInvoke ==
  /\ job.pc = "idle"
  /\ twin.pc = "idle"
  /\ \E files \in FileLists, options \in MetadataInputs, onProgress \in BOOLEAN :
       /\ job' = cropProcess(job, files, options, onProgress)
       /\ twin' = cropProcess(twin, files, WithMode(options, "destructive"), onProgress)
  /\ UNCHANGED <<fontCache, fontDB, restVars>>

ModeNext ==
  \/ ModeInvoke
  \/ TwinSettle
  \/ TwinCancel

SpecMode == ModeInit /\ [][ModeNext]_vars

\* C33: a destructive crop makes the same setCropBox calls in the same order,
\* reports the same progress and settles with the same result (the same
\* serialized document, the same metadata, the same failure) as the metadata
\* crop of the same input; only the suffix put into the file name differs.
C33_DestructiveIsMetadataCrop ==
  /\ twin.pc = job.pc
  /\ twin.cropCalls = job.cropCalls
  /\ twin.pdfDoc = job.pdfDoc
  /\ twin.delivered = job.delivered
  /\ [twin.result EXCEPT !.filename = <<>>] = [job.result EXCEPT !.filename = <<>>]
  /\ ~Succeeded(job) => twin.result.filename = job.result.filename
  /\ Succeeded(job) =>
       /\ job.result.filename = ReplaceFirst(job.files[1].name, DotPdf, CroppedSuffix)
       /\ twin.result.filename =
            ReplaceFirst(twin.files[1].name, DotPdf, CroppedFlattenedSuffix)

\* both crops succeeded after setting a crop box, under different names
C33_Witness ==
  /\ Succeeded(job)
  /\ Succeeded(twin)
  /\ isDestructive(twin)
  /\ ~isDestructive(job)
  /\ job.cropCalls # <<>>
  /\ twin.result.blob.doc.cropped # {}
  /\ twin.result.filename # job.result.filename

\* C35: a loadFont whose fetch failed (it threw, or the response was not OK)
\* throws, so the job fails with PROCESSING_FAILED without a font; the memory
\* tier still holds nothing for the key and the durable tier holds for the
\* key what it held when loadFont started, so the next loadFont of the key
\* does not return from the memory tier.
C35_FailedFetchStoresNothing ==
  LoadFontCalled(job) /\ job.fetchEnd \in {"status", "threw"} =>
    /\ ~job.fontLoaded
    /\ FailedWith(job, PROCESSING_FAILED)
    /\ job.dbPut = "none"
    /\ job.memAtStart = NoBytes
    /\ fontCache[job.fontConfig] = NoBytes
    /\ fontDB[job.fontConfig] = job.dbAtStart

\* the response was 404 for one key while the other key is cached in both tiers
C35_Witness ==
  /\ job.fontConfig = "noto-sans-kr"
  /\ job.fetchEnd = "status"
  /\ job.pc = "done"
  /\ fontCache["noto-sans"] # NoBytes
  /\ fontDB["noto-sans"] # NoBytes
  /\ fontCache["noto-sans-kr"] = NoBytes

\* C34: a deleteProject(id) that resolved left no record under id and every
\* other stored record as it was; with a database that works, deleteProject
\* on an id that is not stored resolves and changes nothing; after a
\* clearAllProjects that resolved the store is empty, and on the empty store
\* getProject gives null for every id and the three lists are empty.
C34_DeleteAndClearFrame ==
  /\ reply.op = "delete" /\ reply.resolved =>
       /\ storeGet(projects, reply.id) = NoProject
       /\ reply.touched \subseteq {reply.id}
       /\ reply.before # NoProject => reply.touched = {reply.id}
  /\ reply.op = "delete" /\ reply.outcome = "ok" /\ reply.before = NoProject =>
       /\ reply.resolved
       /\ reply.touched = {}
  /\ reply.op = "clear" /\ reply.resolved => projects = {}
  /\ projects = {} =>
       /\ \A id \in ProjectIds : getProject(projects, id, "ok").value = NoProject
       /\ getAllProjects(projects, "ok").list = <<>>
       /\ \A t \in ToolIds : getProjectsByTool(projects, t, "ok").list = <<>>
       /\ getInProgressProjects(projects, "ok").list = <<>>
  /\ projects = {} /\ reply.resolved
       /\ reply.op \in {"get", "getAll", "getByTool", "getInProgress"} =>
       /\ reply.value = NoProject
       /\ reply.list = <<>>

\* one of two stored projects has just been deleted
C34_Witness ==
  /\ reply.op = "delete"
  /\ reply.resolved
  /\ reply.before # NoProject
  /\ Cardinality(projects) = 1
  /\ reply.touched = {reply.id}

\* the last progress value handed to the observer
LastDelivered(self) == self.delivered[Len(self.delivered)]

\* C36: in every invocation a progress of 100 is set, and delivered to the
\* observer, only after save() has completed; an invocation that succeeded
\* has progress 100 and, with an observer, 100 is the last value it was
\* given; an invocation that failed or whose promise was rejected never
\* reported 100.
C36_CompleteOnlyAfterSave ==
  /\ job.progress = Pct(100) \/ Contains(job.delivered, Pct(100)) => job.saveDone
  /\ Succeeded(job) =>
       /\ job.progress = Pct(100)
       /\ job.onProgress => job.delivered # <<>> /\ LastDelivered(job) = Pct(100)
  /\ (Settled(job) /\ ~Succeeded(job)) \/ job.pc = "rejected" =>
       /\ job.progress # Pct(100)
       /\ ~Contains(job.delivered, Pct(100))

\* a text-to-pdf job with an observer succeeded
C36_Witness ==
  /\ job.kind = "text"
  /\ Succeeded(job)
  /\ job.onProgress
  /\ job.saveDone
  /\ LastDelivered(job) = Pct(100)
  /\ Len(job.delivered) > 1

\* C37: when a crop succeeds, the pagesCropped it reports is the number of
\* pages whose crop box was set, and these are pages of the document: an
\* entry of cropData for a page number outside 1..pageCount is not counted.
C37_PagesCroppedCountsSetBoxes ==
  job.kind = "crop" /\ Succeeded(job) =>
    /\ \A i \in 1..Len(job.cropCalls) : job.cropCalls[i] \in 1..job.pdfDoc.pageCount
    /\ job.result.metadata["pagesCropped"] = Len(job.cropCalls)
    /\ job.result.metadata["pagesCropped"] = Cardinality(job.result.blob.doc.cropped)

(***************************************************************************)
(* SpecTour: a component uses useGuidedTour(steps) with a fixed, non-empty *)
(* step list and calls the callbacks the hook returned; React renders it   *)
(* again at some moment after a state update.                              *)
(***************************************************************************)
TourInit ==
  /\ job = IdleJob
  /\ twin = IdleJob
  /\ fontCache = EmptyFontStore
  /\ fontDB = EmptyFontStore
  /\ StoreInit
  /\ TxIdle
  /\ LogIdle
  /\ tabs = [c \in Callers |-> NoTab]
  /\ tour \in {MountedTour(n, completed, dismissed) :
                 n \in 1..MaxSteps, completed \in BOOLEAN, dismissed \in BOOLEAN}

\* a callback of the last render is called
Called(t) ==
  /\ tour.callsSinceRender < MaxCallsPerRender
  /\ tour' = [t EXCEPT !.callsSinceRender = @ + 1]
  /\ UNCHANGED <<procVars, storeVars, txVars, logVars, tabs>>

FirstVisitEffect ==
  /\ ~tour.effectRan
  /\ \E available \in BOOLEAN : tour' = firstVisitEffect(tour, available)
  /\ UNCHANGED <<procVars, storeVars, txVars, logVars, tabs>>

StartTour == Called(startTour(tour))

NextStep == \E available \in BOOLEAN : Called(nextStep(tour, available))

PrevStep == Called(prevStep(tour))

GoToStep == \E step \in (-1)..tour.steps : Called(goToStep(tour, step))

EndTour == \E available \in BOOLEAN : Called(endTour(tour, available))

DismissTour == \E available \in BOOLEAN : Called(dismissTour(tour, available))

ResetTour == \E available \in BOOLEAN : Called(resetTour(tour, available))

Rerender ==
  /\ tour.shown # Shown(tour) \/ tour.callsSinceRender > 0
  /\ tour' = rerender(tour)
  /\ UNCHANGED <<procVars, storeVars, txVars, logVars, tabs>>

TourNext ==
  \/ FirstVisitEffect
  \/ StartTour
  \/ NextStep
  \/ PrevStep
  \/ GoToStep
  \/ EndTour
  \/ DismissTour
  \/ ResetTour
  \/ Rerender

SpecTour == TourInit /\ [][TourNext]_vars

\* C39: whatever callbacks were called, also several on one render, the
\* currentStep the hook returns is an index of the step list and
\* currentStepData is a step, never null.
C39_CurrentStepInRange ==
  /\ tour.shown.currentStep \in 0..(tour.steps - 1)
  /\ currentStepData(tour) # NoStep

(***************************************************************************)
(* SpecTabs: two browsing contexts each call addRecentFile once.  The read *)
(* of the stored list and the write of the new list are separate accesses  *)
(* to the shared localStorage, so the accesses of the two calls interleave *)
(* in any order.                                                           *)
(***************************************************************************)
\* lists of fewer than MAX_RECENT_FILES - 1 entries
TabStarts == {0, 1, MAX_RECENT_FILES - 2}

TabsInit ==
  /\ job = IdleJob
  /\ twin = IdleJob
  /\ fontCache = EmptyFontStore
  /\ fontDB = EmptyFontStore
  /\ StoreInit
  /\ TxIdle
  /\ recent \in {LogAfter(k) : k \in TabStarts}
  /\ logReply = NoLogReply
  /\ PageIdle

TabLoads(c) ==
  /\ tabs[c].pc = "idle"
  /\ \E in \in RecordInputs, rand \in RandomParts :
       tabs' = [tabs EXCEPT ![c] = addRecentFileLoad(recent, in.name, in.size,
                                     in.toolUsed, in.toolName, clock, rand)]
  /\ UNCHANGED <<procVars, storeVars, txVars, logVars, tour>>

TabPersists(c) ==
  /\ tabs[c].pc = "loaded"
  /\ recent' = addRecentFilePersist(tabs[c])
  /\ tabs' = [tabs EXCEPT ![c].pc = "returned"]
  /\ UNCHANGED <<procVars, storeVars, txVars, logReply, tour>>

TabsNext ==
  \/ \E c \in Callers : TabLoads(c)
  \/ \E c \in Callers : TabPersists(c)

SpecTabs == TabsInit /\ [][TabsNext]_vars

\* the stored list has an entry of this name and tool
Listed(item, tab) ==
  \E i \in 1..Len(getRecentFiles(item, "none")) :
    SamePair(getRecentFiles(item, "none")[i], tab.name, tab.toolUsed)

\* C38: when two contexts have each recorded a file, of different name or
\* different tool, and both calls have returned, the stored list has both
\* entries.
C38_BothEntriesRecorded ==
  (/\ \A c \in Callers : tabs[c].pc = "returned"
   /\ ~SamePair(tabs["c1"], tabs["c2"].name, tabs["c2"].toolUsed)) =>
    \A c \in Callers : Listed(recent, tabs[c])

(***************************************************************************)
(* SpecRace: two text-to-pdf jobs of one session are in flight together.   *)
(* JavaScript runs one continuation at a time: `job` is the invocation     *)
(* whose continuation runs next and `twin` the one that waits; Switch      *)
(* hands the turn to the other.  Both use the module's fontCache and the   *)
(* same IndexedDB store, which start empty.                                *)
(***************************************************************************)
Switch ==
  /\ twin # job
  /\ job' = twin
  /\ twin' = job
  /\ UNCHANGED <<fontCache, fontDB, restVars>>

RaceNext ==
  \/ FontInvoke
  \/ LoadPdfLibSettled
  \/ FileTextSettled
  \/ CreateSettled
  \/ FontkitSettled
  \/ FontDbGetSettled
  \/ FetchSettled
  \/ ResponseBodySettled
  \/ FontDbPutSettled
  \/ EmbedFontSettled
  \/ CreatePdfFromTextSettled
  \/ SaveSettled
  \/ Switch

SpecRace == FontInit /\ [][RaceNext]_vars

\* loadFont has been called and has not returned or thrown
InLoadFont(self) == self.pc \in {"fontDbGet", "fetch", "responseBody", "fontDbPut"}

\* both invocations called loadFont for one key and found both tiers empty
SameKeyFromEmpty ==
  /\ LoadFontCalled(job) /\ LoadFontCalled(twin)
  /\ job.fontConfig = twin.fontConfig
  /\ job.memAtStart = NoBytes /\ twin.memAtStart = NoBytes
  /\ job.dbAtStart = NoBytes /\ twin.dbAtStart = NoBytes

\* C32: while two loadFont calls for one key are in flight together, both
\* tiers having been empty, at most one fetch has been issued for the key;
\* and when both have fetched, stored and returned, the memory tier and the
\* durable tier hold the same bytes for the key.
C32_OneFetchPerKey ==
  /\ SameKeyFromEmpty /\ InLoadFont(job) /\ InLoadFont(twin) =>
       job.fetches + twin.fetches <= 1
  /\ (/\ SameKeyFromEmpty
      /\ job.fontLoaded /\ twin.fontLoaded
      /\ job.dbPut = "ok" /\ twin.dbPut = "ok") =>
       fontCache[job.fontConfig] = fontDB[job.fontConfig]

(***************************************************************************)
(* SpecShared: a caller keeps one processor (createSanitizeProcessor() and *)
(* the like) and calls process() on it a second time while the first       *)
(* invocation is in flight.  `job` is the first invocation and `twin` the  *)
(* second; progress, cancelled and onProgress are fields of the one        *)
(* instance, so each record is given the values the other one left.  Both  *)
(* invocations pass an observer.                                           *)
(***************************************************************************)
\* `other` seen after `self` has run: the instance fields are those of self
SameInstance(other, self) ==
  [other EXCEPT !.progress = self.progress, !.cancelled = self.cancelled,
                !.onProgress = self.onProgress]

\* the progress values handed to this.onProgress between two states
DeliveredSince(before, after) ==
  SubSeq(after.delivered, Len(before.delivered) + 1, Len(after.delivered))

InFlight(self) == self.pc \notin {"idle", "done", "rejected"}

\* one input per processor, and the call without a file
SharedInputs(kind) ==
  LET pdf == CHOOSE f \in FilePool : f.type = "application/pdf"
      options == IF kind = "crop" THEN [cropData |-> {1}] ELSE EmptyOptions
  IN {[files |-> <<>>, options |-> options],
      [files |-> IF kind = "text" THEN <<TextFile>> ELSE <<pdf>>, options |-> options]}

\* the document load() gives here has one page, nothing to remove and no
\* call that throws
SharedOutcomesAt(self) ==
  IF self.pc = "load"
  THEN {Gave(d, 0) : d \in {x \in CropDocuments : x.pageCount = 1 /\ x.faults = {}}}
         \cup {Threw(TRUE, FALSE)}
  ELSE OutcomesAt(self)

FirstInvoke ==
  /\ job.pc = "idle"
  /\ twin.pc = "idle"
  /\ \E in \in SharedInputs(job.kind) :
       LET s == process(job, job.kind, in.files, in.options, TRUE)
       IN /\ job' = s
          /\ twin' = SameInstance(twin, s)
  /\ UNCHANGED <<fontCache, fontDB, restVars>>

\* process() again on the same instance: this.reset(), this.onProgress = ...
SecondInvoke ==
  /\ InFlight(job)
  /\ twin.pc = "idle"
  /\ \E in \in SharedInputs(twin.kind) :
       LET s == process(twin, twin.kind, in.files, in.options, TRUE)
       IN /\ twin' = s
          /\ job' = SameInstance(job, s)
  /\ UNCHANGED <<fontCache, fontDB, restVars>>

\* A continuation of the first invocation runs.  Once the second one has
\* started, this.onProgress is the observer of the second.
FirstSettles ==
  /\ \E e \in SharedOutcomesAt(job) :
       LET s == Resume(job, e)
       IN IF twin.pc = "idle"
          THEN /\ job' = s
               /\ twin' = SameInstance(twin, s)
          ELSE /\ job' = [s EXCEPT !.delivered = job.delivered]
               /\ twin' = [SameInstance(twin, s) EXCEPT
                             !.delivered = @ \o DeliveredSince(job, s),
                             !.foreign = @ \o DeliveredSince(job, s)]
  /\ UNCHANGED <<fontCache, fontDB, restVars>>

SecondSettles ==
  /\ \E e \in SharedOutcomesAt(twin) :
       LET s == Resume(twin, e)
       IN /\ twin' = s
          /\ job' = SameInstance(job, s)
  /\ UNCHANGED <<fontCache, fontDB, restVars>>

\* cancel() on the instance while the first invocation is in flight
SharedCancel ==
  /\ InFlight(job)
  /\ ~job.cancelled
  /\ job' = cancel(job)
  /\ twin' = SameInstance(twin, cancel(job))
  /\ UNCHANGED <<fontCache, fontDB, restVars>>

SharedNext ==
  \/ FirstInvoke
  \/ SecondInvoke
  \/ FirstSettles
  \/ SecondSettles
  \/ SharedCancel

SpecShared == Init /\ [][SharedNext]_vars

\* C31: with two invocations in flight on one instance, the observer of the
\* second is never handed a progress value of the first, and the step that
\* starts the second invocation leaves the progress counter of the first as
\* it was and does not clear a cancellation requested for it.
C31_JobsDoNotInterfere ==
  [][/\ twin'.foreign = <<>>
     /\ (twin.pc = "idle" /\ twin'.pc # "idle" /\ InFlight(job)) =>
          /\ job'.progress = job.progress
          /\ job.cancelled => job'.cancelled]_vars

====
